---- MODULE Spec2Model ----
(***************************************************************************)
(* A model of the ASCII video generator: the frame sampler and its colour  *)
(* arithmetic (lib/ascii-converter), and the preview / export driver of    *)
(* the ASCIIPreview component.                                             *)
(*                                                                         *)
(* Numbers that the TypeScript code holds in floating point are held here  *)
(* as exact rationals [n |-> numerator, d |-> denominator], d > 0, in      *)
(* lowest terms.  Strings are sequences of one-character strings, so that  *)
(* hex formatting and parsing are computed digit by digit.  The glyph      *)
(* lookup is also modelled in IEEE 754 binary64, bit by bit, for the       *)
(* properties that depend on how a double rounds.                          *)
(***************************************************************************)
EXTENDS Integers, Sequences, FiniteSets, TLC

VARIABLES
    \* the sampler (lib/ascii-converter)
    raster,            \* the RGBA buffer handed to convertFrameToASCII
    settings,          \* the ASCIISettings of the render call
    asciiChars,        \* the grid returned by convertFrameToASCII
    samplerPc,         \* "input" before the call, "sampled" after it
    intensity,         \* the brightness handed to getCharacterForBrightness
    glyphs,            \* the glyphs returned for it and for its mirror image
    libCall,           \* a call of a colour function: its name and arguments
    libResult,         \* what that call returned
    \* the loaded asset (props of ASCIIPreview)
    video,             \* the video or image element: isVideo, duration (ms),
                       \* currentTime, shown (the time of the picture it
                       \* presents), paused, seeking, seekBy (who started
                       \* the pending seek), seeked (the seeked events
                       \* queued and not yet dispatched), races
    gifFrames,         \* the decoded GIF frames: delay, disposalType, dims
    \* the preview
    isPlaying,
    gifFrameIndexRef,
    sinceGifFrame,     \* the latest timestamp minus lastGifFrameTimeRef
    animationRef,      \* TRUE while an animate callback is requested
    gifCanvas,         \* the live GIF composite
    sourceCanvas,
    outputCanvas,
    \* the export
    isExporting,
    exportProgress,
    exportFormat,
    exportPc,          \* where handleExport / exportAsGIF / exportAsVideo stands
    exportIdx,         \* the loop variable i of the export loops
    wasPlaying,
    exportCanvas,
    gifEncoder,        \* the gif.js encoder: frames added, rendering state
    mediaRecorder,     \* "inactive", "recording" or "stopped"
    downloads,         \* the files handed to the browser for download
    exportsStarted,    \* how many times handleExport ran
    \* history
    exportThrown,      \* an exception was raised in the export under way
    errorLogged,       \* the catch block of handleExport reported it
    lastCompose,       \* the last renderGifFrame: the frame drawn, and the
                       \* frame whose composite it was drawn onto
    lastCall,          \* the last handler run and its renderFrame calls
    \* the page and its uploader
    uploads,           \* one record per handleFile call: the file's type, the
                       \* hasLoaded flag of its closure, the element events and
                       \* the fallback timeout still to come (pending), and how
                       \* often it called onVideoLoad (reported) and
                       \* onLoadingChange(false) (failed)
    home               \* the state and refs of Home: video (0 is null, else
                       \* the upload handed over), isLoading,
                       \* loadingStartTimeRef (0 is null), pendingVideoRef
                       \* (0 is null), and the hand-over timers set

samplerVars == <<raster, settings, asciiChars, samplerPc, intensity, glyphs,
                 libCall, libResult>>

assetVars == <<video, gifFrames>>

previewVars == <<isPlaying, gifFrameIndexRef, sinceGifFrame, animationRef,
                 gifCanvas, sourceCanvas, outputCanvas, lastCompose>>

exportVars == <<isExporting, exportProgress, exportFormat, exportPc, exportIdx,
                wasPlaying, exportCanvas, gifEncoder, mediaRecorder, downloads,
                exportsStarted, exportThrown, errorLogged>>

driverVars == <<assetVars, previewVars, exportVars, lastCall>>

pageVars == <<uploads, home>>

vars == <<samplerVars, driverVars, pageVars>>

----------------------------------------------------------------------------
(* Exact rational arithmetic                                               *)

Abs(x) == IF x < 0 THEN -x ELSE x

RECURSIVE GCD(_, _)
GCD(a, b) == IF b = 0 THEN a ELSE GCD(b, a % b)

Rat(n, d) ==
    LET g == GCD(Abs(n), d)
    IN  IF n = 0 THEN [n |-> 0, d |-> 1] ELSE [n |-> n \div g, d |-> d \div g]

Num(k) == [n |-> k, d |-> 1]

RAdd(a, b) ==
    IF a.d = b.d THEN Rat(a.n + b.n, a.d)
    ELSE LET g == GCD(a.d, b.d)
         IN  Rat(a.n * (b.d \div g) + b.n * (a.d \div g), (a.d \div g) * b.d)

RNeg(a) == [n |-> -a.n, d |-> a.d]

RSub(a, b) == RAdd(a, RNeg(b))

RMul(a, b) ==
    IF a.n = 0 \/ b.n = 0 THEN [n |-> 0, d |-> 1]
    ELSE LET g1 == GCD(Abs(a.n), b.d)
             g2 == GCD(Abs(b.n), a.d)
         IN  Rat((a.n \div g1) * (b.n \div g2), (a.d \div g2) * (b.d \div g1))

RInv(a) == IF a.n < 0 THEN [n |-> -a.d, d |-> -a.n] ELSE [n |-> a.d, d |-> a.n]

RDiv(a, b) == RMul(a, RInv(b))

RLess(a, b) == RSub(a, b).n < 0

RLeq(a, b) == RSub(a, b).n <= 0

RMin(a, b) == IF RLess(b, a) THEN b ELSE a

RMax(a, b) == IF RLess(a, b) THEN b ELSE a

RAbs(a) == [n |-> Abs(a.n), d |-> a.d]

\* Math.floor, Math.ceil and Math.round (nearest integer, a tie goes up)
MathFloor(a) == a.n \div a.d

MathCeil(a) == -((-a.n) \div a.d)

MathRound(a) == (2 * a.n + a.d) \div (2 * a.d)

----------------------------------------------------------------------------
(* lib/ascii-converter: constants                                          *)

CHAR_ASPECT_RATIO == [n |-> 3, d |-> 5]

DEFAULT_CHARACTER_SET == <<".", ":", "-", "=", "+", "*", "#", "%", "@">>

DEFAULT_SETTINGS ==
    [ characterSet   |-> DEFAULT_CHARACTER_SET,
      pixelSize      |-> 8,
      colorMode      |-> "original",
      monochromeColor |-> <<"#", "0", "0", "f", "f", "8", "8">>,
      gradientColors |-> << <<"#", "0", "0", "f", "f", "8", "8">>,
                            <<"#", "f", "f", "0", "0", "f", "f">>,
                            <<"#", "0", "0", "f", "f", "f", "f">> >>,
      backgroundColor |-> <<"#", "0", "a", "0", "a", "0", "f">>,
      transparentBackground |-> FALSE,
      blendMode      |-> "normal",
      contrast       |-> Num(1),
      brightness     |-> Num(1),
      invert         |-> FALSE,
      fontSize       |-> 10 ]

----------------------------------------------------------------------------
(* lib/ascii-converter: colour arithmetic                                  *)

rgbToGrayscale(r, g, b) ==
    RAdd(RAdd(RMul(Rat(299, 1000), r), RMul(Rat(587, 1000), g)),
         RMul(Rat(114, 1000), b))

\* a variant of applyBrightness without the lower clamp
applyBrightnessUnfloored(value, brightness) ==
    RMin(Num(255), RMul(value, brightness))

applyBrightness(value, brightness) ==
    RMin(Num(255), RMax(Num(0), RMul(value, brightness)))

\* a variant of applyContrast without the neutral-factor guard
applyContrastUnguarded(value, contrast) ==
    LET adjusted == RAdd(RMul(RSub(value, Num(128)), contrast), Num(128))
    IN  RMin(Num(255), RMax(Num(0), adjusted))

applyContrast(value, contrast) ==
    IF RLess(RAbs(RSub(contrast, Num(1))), Rat(1, 1000))
    THEN value
    ELSE LET adjusted == RAdd(RMul(RSub(value, Num(128)), contrast), Num(128))
         IN  RMin(Num(255), RMax(Num(0), adjusted))

\* the ramp index chosen for a brightness, for a ramp of length >= 2
characterIndex(brightness, length, invert) ==
    LET normalizedBrightness == RDiv(RMin(Num(255), RMax(Num(0), brightness)), Num(255))
        adjustedBrightness ==
            IF invert THEN RSub(Num(1), normalizedBrightness) ELSE normalizedBrightness
        index == MathRound(RMul(adjustedBrightness, Num(length - 1)))
        m == IF 0 > index THEN 0 ELSE index
    IN  IF m < length - 1 THEN m ELSE length - 1

getCharacterForBrightness(brightness, characterSet, invert) ==
    IF Len(characterSet) = 0 THEN " "
    ELSE IF Len(characterSet) = 1 THEN characterSet[1]
    ELSE characterSet[characterIndex(brightness, Len(characterSet), invert) + 1]

----------------------------------------------------------------------------
(* lib/ascii-converter: the glyph lookup in IEEE 754 binary64              *)
(*                                                                         *)
(* A value v >= 0 is [int |-> i, frac |-> f]: the integer part i and the   *)
(* bits f after the binary point, v = i + f[1]/2 + f[2]/4 + ...            *)

\* the bits of a double's significand
DoublePrecision == 53

Zero64 == [int |-> 0, frac |-> <<>>]

One64 == [int |-> 1, frac |-> <<>>]

RECURSIVE BitLength(_)
BitLength(k) == IF k = 0 THEN 0 ELSE 1 + BitLength(k \div 2)

IsZeroBits(f) == \A i \in 1..Len(f) : f[i] = 0

LeadingZeros(f) ==
    IF IsZeroBits(f) THEN Len(f)
    ELSE (CHOOSE i \in 1..Len(f) : f[i] = 1 /\ \A j \in 1..(i - 1) : f[j] = 0) - 1

\* the bits f plus one unit in the last place, and the carry out of them
IncBits(f) ==
    IF \A i \in 1..Len(f) : f[i] = 1
    THEN [carry |-> 1, bits |-> [i \in 1..Len(f) |-> 0]]
    ELSE LET p == CHOOSE i \in 1..Len(f) :
                      f[i] = 0 /\ \A j \in (i + 1)..Len(f) : f[j] = 1
         IN  [carry |-> 0,
              bits |-> [i \in 1..Len(f) |-> IF i < p THEN f[i]
                                            ELSE IF i = p THEN 1 ELSE 0]]

\* the double nearest to v, a tie going to the even significand
RoundToDouble(v) ==
    LET keep == IF v.int > 0 THEN DoublePrecision - BitLength(v.int)
                ELSE LeadingZeros(v.frac) + DoublePrecision
    IN  IF Len(v.frac) <= keep THEN v
        ELSE LET kept == SubSeq(v.frac, 1, keep)
                 half == v.frac[keep + 1] = 1
                 sticky == \E i \in (keep + 2)..Len(v.frac) : v.frac[i] = 1
                 odd == kept[keep] = 1
                 inc == IncBits(kept)
             IN  IF half /\ (sticky \/ odd)
                 THEN [int |-> v.int + inc.carry, frac |-> inc.bits]
                 ELSE [int |-> v.int, frac |-> kept]

\* Math.min(255, Math.max(0, brightness))
Clamp255(v) == IF v.int >= 255 THEN [int |-> 255, frac |-> <<>>] ELSE v

\* Math.max(0, v); a value below 0 is held as a negative int with no fraction
ClampZero(v) == IF v.int < 0 THEN Zero64 ELSE v

\* the integer whose binary digits are the bits f
RECURSIVE BitsValue(_)
BitsValue(f) ==
    IF f = <<>> THEN 0
    ELSE IF Len(f) = 1 THEN f[1]
    ELSE LET mid == Len(f) \div 2
         IN  BitsValue(SubSeq(f, 1, mid)) * 2^(Len(f) - mid)
               + BitsValue(SubSeq(f, mid + 1, Len(f)))

\* the n binary digits of x < 2^n
ValueBits(x, n) == [i \in 1..n |-> (x \div 2^(n - i)) % 2]

\* floor(v * 2^i) % 255, the remainder of the long division of v by 255 after
\* i bits of the quotient; 2^8 % 255 = 1, so that 2^j % 255 = 2^(j % 8)
Rem255(v, i) ==
    LET len == Len(v.frac)
        scaled == v.int * 2^len + BitsValue(v.frac)
    IN  IF i <= len THEN (scaled \div 2^(len - i)) % 255
        ELSE ((scaled % 255) * 2^((i - len) % 8)) % 255

\* the first n bits of the quotient v / 255 for 0 <= v < 255, and one more bit
\* if the division leaves a remainder
DivBits255(v, n) ==
    LET bits == [i \in 1..n |->
                   LET r2 == 2 * Rem255(v, i - 1)
                               + (IF i <= Len(v.frac) THEN v.frac[i] ELSE 0)
                   IN  IF r2 >= 255 THEN 1 ELSE 0]
    IN  IF Rem255(v, n) = 0 THEN bits ELSE Append(bits, 1)

\* v / 255 for 0 <= v <= 255: the quotient to 12 bits more than a double
\* holds, then rounded
Div255(v) ==
    IF v.int = 255 THEN One64
    ELSE RoundToDouble([int |-> 0, frac |-> DivBits255(v, DoublePrecision + 12)])

\* 1 - v for 0 <= v <= 1
OneMinus(v) ==
    IF v.int >= 1 THEN Zero64
    ELSE IF IsZeroBits(v.frac) THEN One64
    ELSE RoundToDouble([int |-> 0,
                        frac |-> IncBits([i \in 1..Len(v.frac) |-> 1 - v.frac[i]]).bits])

\* the bits f times k plus a carry coming in, and the carry going out,
\* sixteen bits at a time
RECURSIVE MulBits(_, _, _)
MulBits(f, k, carry) ==
    IF Len(f) <= 16
    THEN LET t == BitsValue(f) * k + carry
         IN  [carry |-> t \div 2^Len(f), bits |-> ValueBits(t % 2^Len(f), Len(f))]
    ELSE LET low == MulBits(SubSeq(f, Len(f) - 15, Len(f)), k, carry)
             high == MulBits(SubSeq(f, 1, Len(f) - 16), k, low.carry)
         IN  [carry |-> high.carry, bits |-> high.bits \o low.bits]

\* v * k for an integer k >= 0
TimesInt(v, k) ==
    LET m == MulBits(v.frac, k, 0)
    IN  RoundToDouble([int |-> v.int * k + m.carry, frac |-> m.bits])

\* a variant of Math.round that truncates
MathRound64Truncating(v) == v.int

\* Math.round of a value >= 0: a fraction of one half or more goes up
MathRound64(v) == v.int + (IF Len(v.frac) >= 1 /\ v.frac[1] = 1 THEN 1 ELSE 0)

\* a variant of the ramp index that flips the brightness when invert is off
characterIndex64Flipped(brightness, length, invert) ==
    LET normalizedBrightness == Div255(Clamp255(ClampZero(brightness)))
        adjustedBrightness ==
            IF invert THEN normalizedBrightness ELSE OneMinus(normalizedBrightness)
        index == MathRound64(TimesInt(adjustedBrightness, length - 1))
        m == IF 0 > index THEN 0 ELSE index
    IN  IF m < length - 1 THEN m ELSE length - 1

\* the ramp index chosen for a brightness, for a ramp of length >= 2
characterIndex64(brightness, length, invert) ==
    LET normalizedBrightness == Div255(Clamp255(ClampZero(brightness)))
        adjustedBrightness ==
            IF invert THEN OneMinus(normalizedBrightness) ELSE normalizedBrightness
        index == MathRound64(TimesInt(adjustedBrightness, length - 1))
        m == IF 0 > index THEN 0 ELSE index
    IN  IF m < length - 1 THEN m ELSE length - 1

getCharacterForBrightness64(brightness, characterSet, invert) ==
    IF Len(characterSet) = 0 THEN " "
    ELSE IF Len(characterSet) = 1 THEN characterSet[1]
    ELSE characterSet[characterIndex64(brightness, Len(characterSet), invert) + 1]

----------------------------------------------------------------------------
(* lib/ascii-converter: hex colours, gradient, blend modes                 *)

HexDigits == <<"0", "1", "2", "3", "4", "5", "6", "7", "8", "9",
               "a", "b", "c", "d", "e", "f">>

UpperHexDigits == <<"0", "1", "2", "3", "4", "5", "6", "7", "8", "9",
                    "A", "B", "C", "D", "E", "F">>

IsHexDigit(c) == \E i \in 1..16 : HexDigits[i] = c \/ UpperHexDigits[i] = c

HexDigitValue(c) == (CHOOSE i \in 1..16 : HexDigits[i] = c \/ UpperHexDigits[i] = c) - 1

\* parseInt(s, 16) of a string of hex digits
RECURSIVE parseInt16(_)
parseInt16(s) ==
    IF Len(s) = 0 THEN 0
    ELSE 16 * parseInt16(SubSeq(s, 1, Len(s) - 1)) + HexDigitValue(s[Len(s)])

\* x.toString(16) of an integer x
RECURSIVE toString16(_)
toString16(x) ==
    IF x < 0 THEN <<"-">> \o toString16(-x)
    ELSE IF x < 16 THEN <<HexDigits[x + 1]>>
    ELSE toString16(x \div 16) \o <<HexDigits[(x % 16) + 1]>>

\* s.padStart(2, '0')
padStart2(s) == IF Len(s) >= 2 THEN s ELSE IF Len(s) = 1 THEN <<"0">> \o s ELSE <<"0", "0">>

hexToRgb(hex) ==
    LET body == IF Len(hex) > 0 /\ hex[1] = "#" THEN Tail(hex) ELSE hex
        matches == Len(body) = 6 /\ \A i \in 1..6 : IsHexDigit(body[i])
    IN  IF matches
        THEN [r |-> parseInt16(SubSeq(body, 1, 2)),
              g |-> parseInt16(SubSeq(body, 3, 4)),
              b |-> parseInt16(SubSeq(body, 5, 6))]
        ELSE [r |-> 255, g |-> 255, b |-> 255]

\* a variant of rgbToHex without the padding to two digits
rgbToHexUnpadded(r, g, b) ==
    <<"#">> \o toString16(r) \o toString16(g) \o toString16(b)

rgbToHex(r, g, b) ==
    <<"#">> \o padStart2(toString16(r)) \o padStart2(toString16(g)) \o padStart2(toString16(b))

interpolateGradient(colors, position) ==
    IF Len(colors) = 0 THEN <<"#", "f", "f", "f", "f", "f", "f">>
    ELSE IF Len(colors) = 1 THEN colors[1]
    ELSE
      LET scaledPosition == RMul(position, Num(Len(colors) - 1))
          index == MathFloor(scaledPosition)
          t == RSub(scaledPosition, Num(index))
      IN  IF index >= Len(colors) - 1 THEN colors[Len(colors)]
          ELSE
            LET color1 == hexToRgb(colors[index + 1])
                color2 == hexToRgb(colors[index + 2])
                mix(a, b) == MathRound(RAdd(Num(a), RMul(Num(b - a), t)))
            IN  rgbToHex(mix(color1.r, color2.r), mix(color1.g, color2.g),
                         mix(color1.b, color2.b))

\* one channel of applyBlendMode
blendChannel(c, mode) ==
    CASE mode = "multiply" -> RDiv(RMul(c, c), Num(255))
      [] mode = "screen" ->
            RSub(Num(255), RDiv(RMul(RSub(Num(255), c), RSub(Num(255), c)), Num(255)))
      [] mode = "overlay" ->
            IF RLess(c, Num(128))
            THEN RDiv(RMul(Num(2), RMul(c, c)), Num(255))
            ELSE RSub(Num(255),
                      RDiv(RMul(Num(2), RMul(RSub(Num(255), c), RSub(Num(255), c))),
                           Num(255)))
      [] mode = "difference" -> RAbs(RSub(c, Num(128)))
      [] OTHER -> c

applyBlendMode(sourceR, sourceG, sourceB, mode) ==
    [r |-> blendChannel(sourceR, mode),
     g |-> blendChannel(sourceG, mode),
     b |-> blendChannel(sourceB, mode)]

----------------------------------------------------------------------------
(* lib/ascii-converter: convertFrameToASCII                                *)

\* the total of a channel over a block's pixels: a small block pixel by pixel,
\* a large one by halves
RECURSIVE SumOver(_, _, _)
SumOver(S, data, ch) ==
    IF S = {} THEN 0
    ELSE IF Cardinality(S) <= 32
    THEN LET i == CHOOSE j \in S : TRUE
         IN  data[i + 1][ch] + SumOver(S \ {i}, data, ch)
    ELSE LET lo == CHOOSE j \in S : \A k \in S : j <= k
             hi == CHOOSE j \in S : \A k \in S : k <= j
             mid == (lo + hi) \div 2
         IN  SumOver({ j \in S : j <= mid }, data, ch)
               + SumOver({ j \in S : j > mid }, data, ch)

\* the pixels the two inner loops of a cell visit, as indices i / 4 into the buffer
blockPixels(pixelX, pixelY, blockWidth, blockHeight, width, height) ==
    { (pixelY + py) * width + (pixelX + px) :
        <<px, py>> \in { q \in (0..(blockWidth - 1)) \X (0..(blockHeight - 1)) :
                            pixelY + q[2] < height /\ pixelX + q[1] < width } }

\* avgR, avgG, avgB as first computed: the block's totals over its pixel count
blockAverage(data, S) ==
    LET count == Cardinality(S)
    IN  [r |-> Rat(SumOver(S, data, 1), count),
         g |-> Rat(SumOver(S, data, 2), count),
         b |-> Rat(SumOver(S, data, 3), count)]

\* avgR, avgG, avgB after they are overwritten with the blend-mode transform
blendedAverage(avg, blendMode) == applyBlendMode(avg.r, avg.g, avg.b, blendMode)

\* a variant that applies contrast before brightness
cellGrayContrastFirst(avg, brightness, contrast) ==
    applyBrightness(applyContrast(rgbToGrayscale(avg.r, avg.g, avg.b), contrast), brightness)

\* gray after brightness, then contrast
cellGray(avg, brightness, contrast) ==
    applyContrast(applyBrightness(rgbToGrayscale(avg.r, avg.g, avg.b), brightness), contrast)

\* a variant that truncates the averaged channels instead of rounding them
cellColorTruncated(avg, gray, st) ==
    CASE st.colorMode = "monochrome" -> st.monochromeColor
      [] st.colorMode = "gradient" -> interpolateGradient(st.gradientColors, RDiv(gray, Num(255)))
      [] st.colorMode = "custom" -> st.monochromeColor
      [] OTHER -> rgbToHex(MathFloor(avg.r), MathFloor(avg.g), MathFloor(avg.b))

cellColor(avg, gray, st) ==
    CASE st.colorMode = "monochrome" -> st.monochromeColor
      [] st.colorMode = "gradient" -> interpolateGradient(st.gradientColors, RDiv(gray, Num(255)))
      [] st.colorMode = "custom" -> st.monochromeColor
      [] OTHER -> rgbToHex(MathRound(avg.r), MathRound(avg.g), MathRound(avg.b))

\* a variant that adds a column at the right edge
gridColsPadded(width, stepX) == MathFloor(RDiv(Num(width), stepX)) + 1

gridCols(width, stepX) == MathFloor(RDiv(Num(width), stepX))

\* a variant that pads the bottom edge instead of cropping it
gridRowsPadded(height, stepY) == MathCeil(RDiv(Num(height), stepY))

gridRows(height, stepY) == MathFloor(RDiv(Num(height), stepY))

\* statements run in sequence: the value v is computed, then F of it
Then(v, F(_)) == CHOOSE r \in { F(u) : u \in {v} } : TRUE

convertFrameToASCII(ctx, width, height, st) ==
    LET stepX == Num(st.pixelSize)
        stepY == RDiv(Num(st.pixelSize), CHAR_ASPECT_RATIO)
        cols == gridCols(width, stepX)
        rows == gridRows(height, stepY)
        blockWidth == MathCeil(stepX)
        blockHeight == MathCeil(stepY)
        pixelXOf(x) == MathFloor(RMul(Num(x), stepX))
        pixelYOf(y) == MathFloor(RMul(Num(y), stepY))
        block(x, y) == blockPixels(pixelXOf(x), pixelYOf(y), blockWidth, blockHeight,
                                   width, height)
        cell(x, y) ==
            Then(blockAverage(ctx.data, block(x, y)), LAMBDA raw :
            Then(blendedAverage(raw, st.blendMode), LAMBDA avg :
            Then(cellGray(avg, st.brightness, st.contrast), LAMBDA gray :
                [char |-> getCharacterForBrightness(gray, st.characterSet, st.invert),
                 color |-> cellColor(avg, gray, st),
                 x |-> pixelXOf(x),
                 y |-> pixelYOf(y)])))
        \* a cell whose block holds no pixel is skipped (count === 0: continue)
        kept(y) == SelectSeq([x \in 1..cols |-> x - 1], LAMBDA x : block(x, y) # {})
        row(y) == [k \in 1..Len(kept(y)) |-> cell(kept(y)[k], y)]
    IN  [y \in 1..rows |-> row(y - 1)]

----------------------------------------------------------------------------
(* lib/ascii-converter: renderASCIIToCanvas                                *)

\* a variant that steps down the rows by the cell width
renderASCIIToCanvasSquare(asciiChars_, st, outputWidth, outputHeight) ==
    LET cleared == IF st.transparentBackground
                   THEN [op |-> "clearRect", x |-> 0, y |-> 0,
                         w |-> outputWidth, h |-> outputHeight]
                   ELSE [op |-> "fillRect", fillStyle |-> st.backgroundColor,
                         x |-> 0, y |-> 0, w |-> outputWidth, h |-> outputHeight]
    IN  IF Len(asciiChars_) = 0 \/ Len(asciiChars_[1]) = 0 THEN <<cleared>>
        ELSE LET cols == Len(asciiChars_[1])
                 rows == Len(asciiChars_)
                 cellWidth == Rat(outputWidth, cols)
                 rowCalls(y) ==
                     [x \in 1..cols |->
                        [op |-> "fillText", text |-> asciiChars_[y + 1][x].char,
                         fillStyle |-> asciiChars_[y + 1][x].color,
                         x |-> RMul(Num(x - 1), cellWidth),
                         y |-> RMul(Num(y), cellWidth)]]
                 RECURSIVE upTo(_)
                 upTo(n) == IF n = 0 THEN <<>> ELSE upTo(n - 1) \o rowCalls(n - 1)
             IN  <<cleared>> \o upTo(rows)

\* the calls renderASCIIToCanvas makes on the output context, in order; the
\* fill style in force is recorded with each fillText
renderASCIIToCanvas(asciiChars_, st, outputWidth, outputHeight) ==
    LET cleared == IF st.transparentBackground
                   THEN [op |-> "clearRect", x |-> 0, y |-> 0,
                         w |-> outputWidth, h |-> outputHeight]
                   ELSE [op |-> "fillRect", fillStyle |-> st.backgroundColor,
                         x |-> 0, y |-> 0, w |-> outputWidth, h |-> outputHeight]
    IN  IF Len(asciiChars_) = 0 \/ Len(asciiChars_[1]) = 0 THEN <<cleared>>
        ELSE LET cols == Len(asciiChars_[1])
                 rows == Len(asciiChars_)
                 cellWidth == Rat(outputWidth, cols)
                 cellHeight == Rat(outputHeight, rows)
                 \* the inner loop over x, for one y
                 rowCalls(y) ==
                     [x \in 1..cols |->
                        [op |-> "fillText", text |-> asciiChars_[y + 1][x].char,
                         fillStyle |-> asciiChars_[y + 1][x].color,
                         x |-> RMul(Num(x - 1), cellWidth),
                         y |-> RMul(Num(y), cellHeight)]]
                 \* the outer loop over y = 0 .. n - 1
                 RECURSIVE upTo(_)
                 upTo(n) == IF n = 0 THEN <<>> ELSE upTo(n - 1) \o rowCalls(n - 1)
             IN  <<cleared>> \o upTo(rows)

\* pixel colours of the frames sampled
Black == <<0, 0, 0>>
White == <<255, 255, 255>>
Rust == <<204, 102, 51>>
Jade == <<51, 204, 102>>

----------------------------------------------------------------------------
(* components/ascii-preview: the asset and the canvases                    *)

CanvasPixels == 2
MaxGifFrames == 3
TickInterval == 50
PlaybackSlices == 2
MaxExports == 1
MaxThrowPass == 2
MaxSeekRaces == 1

EXPORT_FPS == 15
MAX_EXPORT_FRAMES == 150
DEFAULT_GIF_DELAY == 100
STILL_RECORD_MS == 2000

Pixels == 1..CanvasPixels

\* a canvas holds, per pixel, the picture painted there: -1 is transparent, a
\* number k >= 0 below 999 is the patch of GIF frame k, 999 is the still image
\* and 1000 + t is the video picture of time t (in whole milliseconds)
BlankCanvas == [p \in Pixels |-> -1]

isVideo == video.isVideo

isAnimatedGif == ~isVideo /\ Len(gifFrames) > 1

\* the picture drawImage(video, ...) reads from the video or image element
elementPicture(v) ==
    [p \in Pixels |-> IF v.isVideo THEN 1000 + MathFloor(v.shown) ELSE 999]

\* ctx.drawImage(src, 0, 0, ...) onto dst: transparent source pixels leave dst
drawImage(src, dst) == [p \in Pixels |-> IF src[p] = -1 THEN dst[p] ELSE src[p]]

\* a variant of renderGifFrame that blanks the composite for every frame
renderGifFrameClearing(frames, canvas, frameIndex) ==
    IF frameIndex < 0 \/ frameIndex >= Len(frames) THEN canvas
    ELSE LET frame == frames[frameIndex + 1]
         IN  [p \in Pixels |-> IF p \in frame.dims THEN frameIndex ELSE -1]

\* renderGifFrame(frameIndex): the composite after the frame's disposal and patch
renderGifFrame(frames, canvas, frameIndex) ==
    IF frameIndex < 0 \/ frameIndex >= Len(frames) THEN canvas
    ELSE LET frame == frames[frameIndex + 1]
             disposed == IF frame.disposalType = 2 THEN BlankCanvas ELSE canvas
         IN  [p \in Pixels |-> IF p \in frame.dims THEN frameIndex ELSE disposed[p]]

\* the picture renderFrame samples: the source canvas after its drawImage
sampledSource(canvas, src, v, animated) ==
    IF animated THEN drawImage(canvas, src) ELSE drawImage(elementPicture(v), src)

\* convertFrameToASCII then renderASCIIToCanvas of a source picture: the
\* output is the ASCII rendition of that picture
asciiRendition(src) == [ascii |-> src]

\* a variant of the tick's delay without the fallback
frameDelayDeclared(frame) == frame.delay

\* frame?.delay || 100
frameDelay(frame) == IF frame.delay = 0 THEN DEFAULT_GIF_DELAY ELSE frame.delay

\* a variant of the export delay without the fallback
exportDelayDeclared(frame) == frame.delay

\* gifFrames[i].delay || 100
exportDelay(frame) == IF frame.delay = 0 THEN DEFAULT_GIF_DELAY ELSE frame.delay

\* a variant of the frame budget without the cap
videoTotalFramesUncapped(duration) == (duration * EXPORT_FPS) \div 1000

\* Math.min(Math.floor(duration * fps), 150), the duration in milliseconds
videoTotalFrames(duration) ==
    LET n == (duration * EXPORT_FPS) \div 1000
    IN  IF n < MAX_EXPORT_FRAMES THEN n ELSE MAX_EXPORT_FRAMES

\* (i / totalFrames) * duration, in milliseconds
videoSampleTime(i, totalFrames, duration) == Rat(i * duration, totalFrames)

\* Math.round(((i + 1) / totalFrames) * 100)
loopProgress(i, totalFrames) == MathRound(Rat((i + 1) * 100, totalFrames))

----------------------------------------------------------------------------
(* components/ascii-preview: the state after mounting an asset             *)

Delays == {0, 150}

DisposalTypes == {1, 2}

\* how a GIF's frames dispose: all keep (1), all clear (2), or clear and keep
\* in turn
DisposalPatterns ==
    { [k \in 1..MaxGifFrames |-> d] : d \in DisposalTypes }
      \cup { [k \in 1..MaxGifFrames |-> IF k % 2 = 1 THEN 2 ELSE 1] }

\* how a GIF's frames declare their delays: all the same, or two delays in turn
DelayPatterns ==
    { [k \in 1..MaxGifFrames |-> d] : d \in Delays }
      \cup { [k \in 1..MaxGifFrames |-> IF k % 2 = 1 THEN d[1] ELSE d[2]] :
                d \in { e \in Delays \X Delays : e[1] # e[2] } }

Durations == {0, 1000, 60000}

\* frame 0 covers the canvas; frame k >= 1 patches one pixel
patchDims(k) == IF k = 0 THEN Pixels ELSE {((k - 1) % CanvasPixels) + 1}

GifAssets ==
    UNION { { [k \in 1..n |-> [delay |-> dl[k], disposalType |-> dp[k], dims |-> patchDims(k - 1)]] :
                dl \in DelayPatterns, dp \in DisposalPatterns } :
            n \in 2..MaxGifFrames }

VideoElement(duration) ==
    [isVideo |-> TRUE, duration |-> duration, currentTime |-> Num(0), shown |-> Num(0),
     paused |-> TRUE, seeking |-> FALSE, seekBy |-> -1, seeked |-> <<>>, races |-> 0]

ImageElement ==
    [isVideo |-> FALSE, duration |-> 0, currentTime |-> Num(0), shown |-> Num(0),
     paused |-> TRUE, seeking |-> FALSE, seekBy |-> -1, seeked |-> <<>>, races |-> 0]

Assets ==
    { <<VideoElement(d), <<>> >> : d \in Durations }
      \cup { <<ImageElement, <<>> >> }
      \cup { <<ImageElement, f>> : f \in GifAssets }

\* the component after its first render and effects, for an asset that the
\* page's first upload handed over
Mounted(v, frames) ==
    LET animated == ~v.isVideo /\ Len(frames) > 1
        composite == IF animated THEN renderGifFrame(frames, BlankCanvas, 0) ELSE BlankCanvas
        src == sampledSource(composite, BlankCanvas, v, animated)
    IN  /\ video = v
        /\ gifFrames = frames
        /\ isPlaying = FALSE
        /\ gifFrameIndexRef = 0
        /\ sinceGifFrame = 0
        /\ animationRef = FALSE
        /\ gifCanvas = composite
        /\ sourceCanvas = src
        /\ outputCanvas = asciiRendition(src)
        /\ lastCompose = [frame |-> IF animated THEN 0 ELSE -1, onto |-> -1]
        /\ isExporting = FALSE
        /\ exportProgress = 0
        /\ exportFormat = "gif"
        /\ exportPc = "idle"
        /\ exportIdx = 0
        /\ wasPlaying = FALSE
        /\ exportCanvas = asciiRendition(BlankCanvas)
        /\ gifEncoder = [frames |-> <<>>, state |-> "new"]
        /\ mediaRecorder = "inactive"
        /\ downloads = 0
        /\ exportsStarted = 0
        /\ exportThrown = FALSE
        /\ errorLogged = FALSE
        /\ lastCall = [op |-> "mount", renders |-> 1]
        /\ uploads = <<[type |-> IF v.isVideo THEN "video" ELSE "gif",
                        hasLoaded |-> v.isVideo, pending |-> {},
                        reported |-> 1, failed |-> 0]>>
        /\ home = [video |-> 1, isLoading |-> FALSE, loadingStartTimeRef |-> 0,
                   pendingVideoRef |-> 0, timers |-> {}]

SamplerIdle ==
    /\ raster = [width |-> 1, height |-> 1, data |-> <<Black>>]
    /\ settings = DEFAULT_SETTINGS
    /\ asciiChars = <<>>
    /\ samplerPc = "input"
    /\ intensity = Zero64
    /\ glyphs = <<>>
    /\ libCall = [fn |-> "none"]
    /\ libResult = <<>>

Init ==
    /\ SamplerIdle
    /\ \E a \in Assets : Mounted(a[1], a[2])


----------------------------------------------------------------------------
(* components/ascii-preview: the preview handlers                          *)

\* the phases of an export in which its code runs without yielding
SyncPcs == {"gifLoop", "videoLoop", "still", "render", "recSetup", "recStart"}

\* the play/pause effect for a new value of isPlaying
PlayEffect(playing, v) ==
    /\ isPlaying' = playing
    /\ animationRef' = playing
    /\ video' = IF v.isVideo THEN [v EXCEPT !.paused = ~playing] ELSE v
    /\ sinceGifFrame' = IF playing THEN 0 ELSE sinceGifFrame

\* renderFrame(), given the composite it reads
RenderFrame(composite, v) ==
    /\ sourceCanvas' = sampledSource(composite, sourceCanvas, v, isAnimatedGif)
    /\ outputCanvas' = asciiRendition(sourceCanvas')

\* a variant of handlePlayPause that rewinds the GIF
HandlePlayPauseRewinding ==
    /\ ~isExporting
    /\ PlayEffect(~isPlaying, video)
    /\ gifFrameIndexRef' = 0
    /\ lastCall' = [op |-> "playPause", renders |-> 0]
    /\ UNCHANGED <<gifFrames, gifCanvas, sourceCanvas, outputCanvas,
                   lastCompose, exportVars, samplerVars, pageVars>>

HandlePlayPause ==
    /\ ~isExporting
    /\ PlayEffect(~isPlaying, video)
    /\ lastCall' = [op |-> "playPause", renders |-> 0]
    /\ UNCHANGED <<gifFrames, gifFrameIndexRef, gifCanvas, sourceCanvas, outputCanvas,
                   lastCompose, exportVars, samplerVars, pageVars>>

\* one animate callback, TickInterval after the previous timestamp
Animate ==
    /\ animationRef
    /\ exportPc \notin SyncPcs
    /\ IF isAnimatedGif
       THEN LET delay == frameDelay(gifFrames[gifFrameIndexRef + 1])
                next == (gifFrameIndexRef + 1) % Len(gifFrames)
            IN  IF sinceGifFrame + TickInterval >= delay
                THEN /\ gifFrameIndexRef' = next
                     /\ gifCanvas' = renderGifFrame(gifFrames, gifCanvas, next)
                     /\ lastCompose' = [frame |-> next, onto |-> lastCompose.frame]
                     /\ sinceGifFrame' = 0
                ELSE /\ sinceGifFrame' = sinceGifFrame + TickInterval
                     /\ UNCHANGED <<gifFrameIndexRef, gifCanvas, lastCompose>>
       ELSE UNCHANGED <<gifFrameIndexRef, gifCanvas, lastCompose, sinceGifFrame>>
    /\ RenderFrame(gifCanvas', video)
    /\ lastCall' = [op |-> "animate", renders |-> 1]
    /\ UNCHANGED <<assetVars, isPlaying, animationRef, exportVars, samplerVars, pageVars>>

\* a variant of handleReset that also pauses
HandleResetPausing ==
    /\ ~isExporting
    /\ PlayEffect(FALSE, IF isVideo /\ video.duration > 0
                         THEN [video EXCEPT !.currentTime = Num(0), !.seeking = TRUE,
                                            !.seekBy = -1]
                         ELSE video)
    /\ IF isAnimatedGif
       THEN /\ gifFrameIndexRef' = 0
            /\ gifCanvas' = renderGifFrame(gifFrames, gifCanvas, 0)
            /\ lastCompose' = [frame |-> 0, onto |-> lastCompose.frame]
       ELSE UNCHANGED <<gifFrameIndexRef, gifCanvas, lastCompose>>
    /\ RenderFrame(gifCanvas', video')
    /\ lastCall' = [op |-> "reset", renders |-> 1]
    /\ UNCHANGED <<gifFrames, exportVars, samplerVars, pageVars>>

HandleReset ==
    /\ ~isExporting
    /\ video' = IF isVideo /\ video.duration > 0
                THEN [video EXCEPT !.currentTime = Num(0), !.seeking = TRUE,
                                   !.seekBy = -1]
                ELSE video
    /\ IF isAnimatedGif
       THEN /\ gifFrameIndexRef' = 0
            /\ gifCanvas' = renderGifFrame(gifFrames, gifCanvas, 0)
            /\ lastCompose' = [frame |-> 0, onto |-> lastCompose.frame]
       ELSE UNCHANGED <<gifFrameIndexRef, gifCanvas, lastCompose>>
    /\ RenderFrame(gifCanvas', video')
    /\ lastCall' = [op |-> "reset", renders |-> 1]
    /\ UNCHANGED <<gifFrames, isPlaying, sinceGifFrame, animationRef, exportVars,
                   samplerVars, pageVars>>

\* the video element plays on: its position moves a slice on, looping at the end
VideoTimeUpdate ==
    /\ isVideo /\ ~video.paused /\ ~video.seeking /\ video.duration > 0
    /\ exportPc \notin SyncPcs
    /\ LET t == RAdd(video.currentTime, Rat(video.duration, PlaybackSlices))
           wrapped == IF RLess(t, Num(video.duration)) THEN t ELSE Num(0)
       IN  video' = [video EXCEPT !.currentTime = wrapped, !.shown = wrapped]
    /\ lastCall' = [op |-> "video", renders |-> 0]
    /\ UNCHANGED <<gifFrames, previewVars, exportVars, samplerVars, pageVars>>

\* the pending seek of the video element completes: the element shows the new
\* position, seeking becomes false and a task is queued to fire seeked; the
\* event is tagged with the seek it belongs to (seekBy: -1 for handleReset's,
\* the pass index for an export's). A seek started while one is pending
\* replaces it, and the replaced seek fires nothing. A seek that completes
\* while an earlier seeked event is still undispatched overtakes it (races
\* counts these, up to MaxSeekRaces).
SeekCompleted ==
    /\ video.seeking
    /\ video.seeked = <<>> \/ video.races < MaxSeekRaces
    /\ exportPc \notin SyncPcs
    /\ video' = [video EXCEPT !.seeking = FALSE, !.shown = video.currentTime,
                              !.seeked = Append(@, video.seekBy),
                              !.races = IF video.seeked = <<>> THEN @ ELSE @ + 1]
    /\ lastCall' = [op |-> "video", renders |-> 0]
    /\ UNCHANGED <<gifFrames, previewVars, exportVars, samplerVars, pageVars>>

\* a seeked event is dispatched while no export awaits one: video.onseeked is
\* unset, or the resolver of a promise settled before
VideoSeeked ==
    /\ video.seeked # <<>>
    /\ exportPc \notin SyncPcs \cup {"awaitSeek", "awaitRecSeek"}
    /\ video' = [video EXCEPT !.seeked = Tail(@)]
    /\ lastCall' = [op |-> "video", renders |-> 0]
    /\ UNCHANGED <<gifFrames, previewVars, exportVars, samplerVars, pageVars>>

----------------------------------------------------------------------------
(* components/ascii-preview: handleExport, exportAsGIF, exportAsVideo      *)

ExportFormats == {"gif", "mp4", "webm"}

\* the locals of a finished exportAsGIF / exportAsVideo are gone
NoExportCanvas == asciiRendition(BlankCanvas)

NoEncoder == [frames |-> <<>>, state |-> "new"]

\* the format select set to a format, then handleExport up to its call of
\* exportAsGIF / exportAsVideo
HandleExport(format) ==
    /\ ~isExporting
    /\ exportPc = "idle"
    /\ exportsStarted < MaxExports
    /\ isExporting' = TRUE
    /\ exportProgress' = 0
    /\ wasPlaying' = isPlaying
    /\ PlayEffect(FALSE, video)
    /\ exportFormat' = format
    /\ exportPc' = IF format = "gif"
                   THEN IF isAnimatedGif THEN "gifLoop"
                        ELSE IF isVideo THEN "videoLoop" ELSE "still"
                   ELSE "recSetup"
    /\ exportIdx' = 0
    /\ exportCanvas' = NoExportCanvas
    /\ gifEncoder' = NoEncoder
    /\ mediaRecorder' = "inactive"
    /\ exportsStarted' = exportsStarted + 1
    /\ exportThrown' = FALSE
    /\ errorLogged' = FALSE
    /\ lastCall' = [op |-> "export", renders |-> 0]
    /\ UNCHANGED <<gifFrames, gifFrameIndexRef, gifCanvas, sourceCanvas, outputCanvas,
                   lastCompose, downloads, samplerVars, pageVars>>

\* the rest of handleExport after its try block: if (wasPlaying) setIsPlaying(true);
\* handleExport returns and its local wasPlaying is gone
RestorePlaying(v) ==
    /\ IF wasPlaying THEN PlayEffect(TRUE, v)
       ELSE /\ video' = v
            /\ UNCHANGED <<isPlaying, animationRef, sinceGifFrame>>
    /\ wasPlaying' = FALSE

\* one pass of the animated-GIF loop of exportAsGIF
ExportGifFrame ==
    /\ exportPc = "gifLoop"
    /\ exportIdx < Len(gifFrames)
    /\ gifCanvas' = renderGifFrame(gifFrames, gifCanvas, exportIdx)
    /\ lastCompose' = [frame |-> exportIdx, onto |-> lastCompose.frame]
    /\ sourceCanvas' = drawImage(gifCanvas', sourceCanvas)
    /\ exportCanvas' = asciiRendition(sourceCanvas')
    /\ gifEncoder' = [gifEncoder EXCEPT !.frames =
            Append(@, [delay |-> Num(exportDelay(gifFrames[exportIdx + 1])),
                       image |-> exportCanvas', frame |-> exportIdx])]
    /\ exportProgress' = loopProgress(exportIdx, Len(gifFrames))
    /\ exportIdx' = exportIdx + 1
    /\ exportPc' = IF exportIdx + 1 < Len(gifFrames) THEN "gifLoop" ELSE "render"
    /\ lastCall' = [op |-> "export", renders |-> 0]
    /\ UNCHANGED <<assetVars, isPlaying, gifFrameIndexRef, sinceGifFrame, animationRef,
                   outputCanvas, isExporting, exportFormat, wasPlaying, mediaRecorder,
                   downloads, exportsStarted, exportThrown, errorLogged, samplerVars, pageVars>>

\* the video loop of exportAsGIF up to its await: video.currentTime = ...
ExportVideoSeek ==
    /\ exportPc = "videoLoop"
    /\ LET totalFrames == videoTotalFrames(video.duration)
       IN  IF exportIdx < totalFrames
           THEN /\ video' = [video EXCEPT
                       !.currentTime = videoSampleTime(exportIdx, totalFrames, video.duration),
                       !.seeking = TRUE, !.seekBy = exportIdx]
                /\ exportPc' = "awaitSeek"
           ELSE /\ exportPc' = "render"
                /\ video' = video
    /\ lastCall' = [op |-> "export", renders |-> 0]
    /\ UNCHANGED <<gifFrames, previewVars, isExporting, exportProgress, exportFormat,
                   exportIdx, wasPlaying, exportCanvas, gifEncoder, mediaRecorder,
                   downloads, exportsStarted, exportThrown, errorLogged, samplerVars, pageVars>>

\* a seeked event is dispatched to video.onseeked and resolves the awaited
\* promise: the rest of the loop pass
ExportVideoFrame ==
    /\ exportPc = "awaitSeek"
    /\ video.seeked # <<>>
    /\ video' = [video EXCEPT !.seeked = Tail(@)]
    /\ sourceCanvas' = drawImage(elementPicture(video'), sourceCanvas)
    /\ exportCanvas' = asciiRendition(sourceCanvas')
    /\ gifEncoder' = [gifEncoder EXCEPT !.frames =
            Append(@, [delay |-> Rat(1000, EXPORT_FPS), image |-> exportCanvas',
                       frame |-> exportIdx])]
    /\ exportProgress' = loopProgress(exportIdx, videoTotalFrames(video.duration))
    /\ exportIdx' = exportIdx + 1
    /\ exportPc' = "videoLoop"
    /\ lastCall' = [op |-> "export", renders |-> 0]
    /\ UNCHANGED <<gifFrames, isPlaying, gifFrameIndexRef, sinceGifFrame, animationRef,
                   gifCanvas, outputCanvas, lastCompose, isExporting, exportFormat,
                   wasPlaying, mediaRecorder, downloads, exportsStarted, exportThrown,
                   errorLogged, samplerVars, pageVars>>

\* the still-image branch of exportAsGIF
ExportStillFrame ==
    /\ exportPc = "still"
    /\ sourceCanvas' = drawImage(elementPicture(video), sourceCanvas)
    /\ exportCanvas' = asciiRendition(sourceCanvas')
    /\ gifEncoder' = [gifEncoder EXCEPT !.frames =
            Append(@, [delay |-> Num(100), image |-> exportCanvas', frame |-> 0])]
    /\ exportProgress' = 100
    /\ exportPc' = "render"
    /\ lastCall' = [op |-> "export", renders |-> 0]
    /\ UNCHANGED <<assetVars, isPlaying, gifFrameIndexRef, sinceGifFrame, animationRef,
                   gifCanvas, outputCanvas, lastCompose, isExporting, exportFormat,
                   exportIdx, wasPlaying, mediaRecorder, downloads,
                   exportsStarted, exportThrown, errorLogged, samplerVars, pageVars>>

\* gif.on("finished", ...); gif.render(); then the rest of handleExport
ExportGifRender ==
    /\ exportPc = "render"
    /\ gifEncoder' = [gifEncoder EXCEPT !.state = "rendering"]
    /\ exportPc' = "encoding"
    /\ RestorePlaying(video)
    /\ lastCall' = [op |-> "export", renders |-> 0]
    /\ UNCHANGED <<gifFrames, gifFrameIndexRef, gifCanvas, sourceCanvas, outputCanvas,
                   lastCompose, isExporting, exportProgress, exportFormat, exportIdx,
                   exportCanvas, mediaRecorder, downloads,
                   exportsStarted, exportThrown, errorLogged, samplerVars, pageVars>>

\* the encoder's "finished" callback
GifFinished ==
    /\ exportPc = "encoding"
    /\ gifEncoder.state = "rendering"
    /\ gifEncoder' = NoEncoder
    /\ exportCanvas' = NoExportCanvas
    /\ exportIdx' = 0
    /\ downloads' = downloads + 1
    /\ isExporting' = FALSE
    /\ exportProgress' = 0
    /\ exportPc' = "idle"
    /\ lastCall' = [op |-> "export", renders |-> 0]
    /\ UNCHANGED <<assetVars, previewVars, exportFormat, wasPlaying, mediaRecorder, exportsStarted, exportThrown,
                   errorLogged, samplerVars, pageVars>>

\* exportAsVideo up to mediaRecorder.start(): for a video, seek to 0 and await
ExportVideoSetup ==
    /\ exportPc = "recSetup"
    /\ IF isVideo
       THEN /\ video' = [video EXCEPT !.currentTime = Num(0), !.seeking = TRUE,
                                      !.seekBy = exportIdx]
            /\ exportPc' = "awaitRecSeek"
       ELSE /\ video' = video
            /\ exportPc' = "recStart"
    /\ lastCall' = [op |-> "export", renders |-> 0]
    /\ UNCHANGED <<gifFrames, previewVars, isExporting, exportProgress, exportFormat,
                   exportIdx, wasPlaying, exportCanvas, gifEncoder, mediaRecorder,
                   downloads, exportsStarted, exportThrown, errorLogged, samplerVars, pageVars>>

\* the seeked event that exportAsVideo awaits
RecordSeeked ==
    /\ exportPc = "awaitRecSeek"
    /\ video.seeked # <<>>
    /\ video' = [video EXCEPT !.seeked = Tail(@)]
    /\ exportPc' = "recStart"
    /\ lastCall' = [op |-> "video", renders |-> 0]
    /\ UNCHANGED <<gifFrames, previewVars, isExporting, exportProgress, exportFormat,
                   exportIdx, wasPlaying, exportCanvas, gifEncoder, mediaRecorder,
                   downloads, exportsStarted, exportThrown, errorLogged, samplerVars, pageVars>>

\* the recording time of exportAsVideo, in milliseconds
recordDuration(v) == IF v.isVideo THEN v.duration ELSE STILL_RECORD_MS

\* the body of recordFrame with elapsed at pct percent of the duration
RecordFrameBody(pct, v) ==
    /\ exportProgress' = pct
    /\ sourceCanvas' = drawImage(elementPicture(v), sourceCanvas)
    /\ exportCanvas' = asciiRendition(sourceCanvas')
    /\ IF pct < 100
       THEN /\ exportPc' = "recording"
            /\ mediaRecorder' = "recording"
       ELSE /\ exportPc' = "recStopping"
            /\ mediaRecorder' = "stopping"

\* mediaRecorder.start(), video.play(), the first recordFrame(), and then the
\* rest of handleExport
RecordStart ==
    /\ exportPc = "recStart"
    /\ LET playing == IF isVideo THEN [video EXCEPT !.paused = FALSE] ELSE video
       IN  /\ RecordFrameBody(IF recordDuration(video) > 0 THEN 0 ELSE 100, playing)
           /\ RestorePlaying(playing)
    /\ lastCall' = [op |-> "export", renders |-> 0]
    /\ UNCHANGED <<gifFrames, gifFrameIndexRef, gifCanvas, outputCanvas, lastCompose,
                   isExporting, exportFormat, exportIdx, gifEncoder,
                   downloads, exportsStarted, exportThrown, errorLogged, samplerVars, pageVars>>

RecordSteps == {50, 100}

\* a later recordFrame, called back by requestAnimationFrame
RecordFrame(pct) ==
    /\ exportPc = "recording"
    /\ pct >= exportProgress
    /\ RecordFrameBody(pct, video)
    /\ lastCall' = [op |-> "export", renders |-> 0]
    /\ UNCHANGED <<assetVars, isPlaying, gifFrameIndexRef, sinceGifFrame, animationRef,
                   gifCanvas, outputCanvas, lastCompose, isExporting, exportFormat,
                   exportIdx, wasPlaying, gifEncoder, downloads,
                   exportsStarted, exportThrown, errorLogged, samplerVars, pageVars>>

\* mediaRecorder.onstop
RecorderStopped ==
    /\ exportPc = "recStopping"
    /\ mediaRecorder' = "inactive"
    /\ exportCanvas' = NoExportCanvas
    /\ downloads' = downloads + 1
    /\ isExporting' = FALSE
    /\ exportProgress' = 0
    /\ exportPc' = "idle"
    /\ lastCall' = [op |-> "export", renders |-> 0]
    /\ UNCHANGED <<assetVars, previewVars, exportFormat, exportIdx, wasPlaying,
                   gifEncoder, exportsStarted, exportThrown, errorLogged,
                   samplerVars, pageVars>>

\* an exception inside the try block of handleExport: a loop pass of
\* exportAsGIF (one of the passes 0 .. MaxThrowPass), or exportAsVideo up to
\* and including its first recordFrame
ExportThrows ==
    /\ exportPc \in {"gifLoop", "videoLoop", "still", "recSetup", "recStart"}
    /\ exportIdx <= MaxThrowPass
    /\ exportThrown' = TRUE
    /\ errorLogged' = TRUE
    /\ isExporting' = FALSE
    /\ exportProgress' = 0
    /\ exportPc' = "idle"
    /\ exportIdx' = 0
    /\ exportCanvas' = NoExportCanvas
    /\ gifEncoder' = NoEncoder
    /\ mediaRecorder' = "inactive"
    /\ RestorePlaying(video)
    /\ lastCall' = [op |-> "export", renders |-> 0]
    /\ UNCHANGED <<gifFrames, gifFrameIndexRef, gifCanvas, sourceCanvas, outputCanvas,
                   lastCompose, exportFormat, downloads, exportsStarted, samplerVars, pageVars>>

\* an exception inside a recordFrame called back by requestAnimationFrame:
\* no handler catches it, and no further recordFrame is requested
RecordFrameThrows ==
    /\ exportPc = "recording"
    /\ exportThrown' = TRUE
    /\ exportPc' = "aborted"
    /\ lastCall' = [op |-> "export", renders |-> 0]
    /\ UNCHANGED <<assetVars, previewVars, isExporting, exportProgress, exportFormat,
                   exportIdx, wasPlaying, exportCanvas, gifEncoder, mediaRecorder,
                   downloads, exportsStarted, errorLogged, samplerVars, pageVars>>

Next ==
    \/ HandlePlayPause
    \/ Animate
    \/ HandleReset
    \/ VideoTimeUpdate
    \/ SeekCompleted
    \/ VideoSeeked
    \/ \E format \in ExportFormats : HandleExport(format)
    \/ ExportGifFrame
    \/ ExportVideoSeek
    \/ ExportVideoFrame
    \/ ExportStillFrame
    \/ ExportGifRender
    \/ GifFinished
    \/ ExportVideoSetup
    \/ RecordSeeked
    \/ RecordStart
    \/ \E pct \in RecordSteps : RecordFrame(pct)
    \/ RecorderStopped
    \/ ExportThrows
    \/ RecordFrameThrows

Spec == Init /\ [][Next]_vars

----------------------------------------------------------------------------
(* The sampler run on bounded inputs                                       *)

MaxWidth == 4
MaxHeight == 7
MaxPixelSize == 3

MinPixelSize == 2

BlendModes == {"normal", "multiply", "screen", "overlay", "difference"}

ColorModes == {"original", "monochrome", "gradient", "custom"}

BrightnessFactors == {Num(1), Num(2)}

ContrastFactors == {Num(1), Rat(1, 2)}

FramePatterns == {"uniform", "columns", "rows"}

FrameColorPairs == {<<Black, White>>, <<White, Rust>>, <<Rust, Jade>>}

\* the buffer of a width x height frame painted with a pattern of two colours
Frame(width, height, pattern, pair) ==
    [ width  |-> width,
      height |-> height,
      data   |-> [i \in 1..(width * height) |->
                    LET x == (i - 1) % width
                        y == (i - 1) \div width
                    IN  CASE pattern = "columns" -> pair[(x % 2) + 1]
                          [] pattern = "rows" -> pair[(y % 2) + 1]
                          [] OTHER -> pair[1]] ]

InitSample ==
    /\ \E w \in 1..MaxWidth, h \in 1..MaxHeight, pt \in FramePatterns, pr \in FrameColorPairs :
          raster = Frame(w, h, pt, pr)
    /\ \E ps \in MinPixelSize..MaxPixelSize, bm \in BlendModes, cm \in ColorModes,
          br \in BrightnessFactors, ct \in ContrastFactors, inv \in BOOLEAN :
          settings = [DEFAULT_SETTINGS EXCEPT !.pixelSize = ps, !.blendMode = bm,
                                              !.colorMode = cm, !.brightness = br,
                                              !.contrast = ct, !.invert = inv]
    /\ asciiChars = <<>>
    /\ samplerPc = "input"
    /\ intensity = Zero64
    /\ glyphs = <<>>
    /\ libCall = [fn |-> "none"]
    /\ libResult = <<>>
    /\ Mounted(ImageElement, <<>>)

SampleFrame ==
    /\ samplerPc = "input"
    /\ asciiChars' = convertFrameToASCII(raster, raster.width, raster.height, settings)
    /\ samplerPc' = "sampled"
    /\ UNCHANGED <<raster, settings, intensity, glyphs, libCall, libResult, driverVars, pageVars>>

NextSample == SampleFrame

SpecSample == InitSample /\ [][NextSample]_vars

----------------------------------------------------------------------------
(* The sampler run on 16 x 16 frames of one colour, default settings       *)

GrayLevels == { g \in 0..255 : g % 5 = 0 }

InitScene ==
    /\ \E g \in GrayLevels : raster = Frame(16, 16, "uniform", << <<g, g, g>>, <<g, g, g>> >>)
    /\ settings = DEFAULT_SETTINGS
    /\ asciiChars = <<>>
    /\ samplerPc = "input"
    /\ intensity = Zero64
    /\ glyphs = <<>>
    /\ libCall = [fn |-> "none"]
    /\ libResult = <<>>
    /\ Mounted(ImageElement, <<>>)

SpecScene == InitScene /\ [][NextSample]_vars

----------------------------------------------------------------------------
(* The renderer run on the grids of bounded frames                         *)

\* the output size: that of the source (preview), or an export size
OutputSizes(r) == {<<r.width, r.height>>, <<7, 5>>}

InitRender ==
    /\ \E w \in 1..MaxWidth, h \in 1..MaxHeight, pt \in {"uniform", "columns"} :
          raster = Frame(w, h, pt, <<Rust, White>>)
    /\ \E ps \in MinPixelSize..MaxPixelSize, cm \in {"original", "monochrome"},
          tb \in BOOLEAN :
          settings = [DEFAULT_SETTINGS EXCEPT !.pixelSize = ps, !.colorMode = cm,
                                              !.transparentBackground = tb]
    /\ asciiChars = <<>>
    /\ samplerPc = "input"
    /\ intensity = Zero64
    /\ glyphs = <<>>
    /\ \E size \in OutputSizes(raster) :
          libCall = [fn |-> "render", outputWidth |-> size[1], outputHeight |-> size[2]]
    /\ libResult = <<>>
    /\ Mounted(ImageElement, <<>>)

\* convertFrameToASCII, then renderASCIIToCanvas of its grid
RenderCells ==
    /\ samplerPc = "input"
    /\ libCall.fn = "render"
    /\ asciiChars' = convertFrameToASCII(raster, raster.width, raster.height, settings)
    /\ libResult' = renderASCIIToCanvas(asciiChars', settings, libCall.outputWidth,
                                        libCall.outputHeight)
    /\ samplerPc' = "rendered"
    /\ UNCHANGED <<raster, settings, intensity, glyphs, libCall, driverVars, pageVars>>

SpecRender == InitRender /\ [][RenderCells]_vars

----------------------------------------------------------------------------
(* components/control-panel: the gradient stop handlers                    *)

\* the colours a stop's colour input is set to
PickedColors == {<<"#", "f", "f", "0", "0", "f", "f">>}

InitPanel ==
    /\ SamplerIdle
    /\ Mounted(ImageElement, <<>>)

\* a variant of addGradientColor whose limit is off by one
AddGradientColorOffByOne ==
    /\ settings' = IF Len(settings.gradientColors) <= 8
                   THEN [settings EXCEPT !.gradientColors =
                            Append(@, <<"#", "f", "f", "f", "f", "f", "f">>)]
                   ELSE settings
    /\ libCall' = [fn |-> "addGradientColor", stops |-> Len(settings.gradientColors)]
    /\ UNCHANGED <<raster, asciiChars, samplerPc, intensity, glyphs, libResult, driverVars, pageVars>>

AddGradientColor ==
    /\ settings' = IF Len(settings.gradientColors) < 8
                   THEN [settings EXCEPT !.gradientColors =
                            Append(@, <<"#", "f", "f", "f", "f", "f", "f">>)]
                   ELSE settings
    /\ libCall' = [fn |-> "addGradientColor", stops |-> Len(settings.gradientColors)]
    /\ UNCHANGED <<raster, asciiChars, samplerPc, intensity, glyphs, libResult, driverVars, pageVars>>

\* index is the position (from 0) of the stop's row
RemoveGradientColor(index) ==
    /\ index \in 0..(Len(settings.gradientColors) - 1)
    /\ settings' = IF Len(settings.gradientColors) > 2
                   THEN [settings EXCEPT !.gradientColors =
                            SubSeq(@, 1, index) \o SubSeq(@, index + 2, Len(@))]
                   ELSE settings
    /\ libCall' = [fn |-> "removeGradientColor", stops |-> Len(settings.gradientColors)]
    /\ UNCHANGED <<raster, asciiChars, samplerPc, intensity, glyphs, libResult, driverVars, pageVars>>

UpdateGradientColor(index, color) ==
    /\ index \in 0..(Len(settings.gradientColors) - 1)
    /\ settings' = [settings EXCEPT !.gradientColors[index + 1] = color]
    /\ libCall' = [fn |-> "updateGradientColor", stops |-> Len(settings.gradientColors)]
    /\ UNCHANGED <<raster, asciiChars, samplerPc, intensity, glyphs, libResult, driverVars, pageVars>>

NextPanel ==
    \/ AddGradientColor
    \/ \E index \in 0..7 : RemoveGradientColor(index)
    \/ \E index \in 0..7, color \in PickedColors : UpdateGradientColor(index, color)

SpecPanel == InitPanel /\ [][NextPanel]_vars

----------------------------------------------------------------------------
(* The glyph lookup run on bounded inputs                                  *)

MaxRampLength == 6

\* the intensities 0, 0.5, 1, ..., 254.5, 255, and some outside [0, 255]
Intensities ==
    { [int |-> i, frac |-> <<>>] : i \in 0..255 }
      \cup { [int |-> i, frac |-> <<1>>] : i \in 0..254 }
      \cup { [int |-> i, frac |-> <<>>] : i \in {-2, -1, 256, 300} }

\* the next intensity up: half a unit on within [0, 255], a unit on outside
Above(v) ==
    IF v.int < 0 \/ v.int >= 255 THEN [int |-> v.int + 1, frac |-> <<>>]
    ELSE IF IsZeroBits(v.frac) THEN [int |-> v.int, frac |-> <<1>>]
    ELSE [int |-> v.int + 1, frac |-> <<>>]

\* the index into the ramp that the lookup computes, -1 when it returns
\* before computing one (a ramp of fewer than 2 glyphs)
rampIndex(brightness, characterSet) ==
    IF Len(characterSet) < 2 THEN -1
    ELSE characterIndex64(brightness, Len(characterSet), FALSE)

\* 255 - v for 0 <= v <= 255, which is exact
Mirror255(v) ==
    IF IsZeroBits(v.frac) THEN [int |-> 255 - v.int, frac |-> <<>>]
    ELSE [int |-> 254 - v.int,
          frac |-> IncBits([i \in 1..Len(v.frac) |-> 1 - v.frac[i]]).bits]

Ramp(n) == SubSeq(DEFAULT_CHARACTER_SET, 1, n)

InitGlyph ==
    /\ raster = [width |-> 1, height |-> 1, data |-> <<Black>>]
    /\ \E n \in 0..MaxRampLength :
          settings = [DEFAULT_SETTINGS EXCEPT !.characterSet = Ramp(n)]
    /\ asciiChars = <<>>
    /\ samplerPc = "input"
    /\ intensity \in Intensities
    /\ glyphs = <<>>
    /\ libCall = [fn |-> "none"]
    /\ libResult = <<>>
    /\ Mounted(ImageElement, <<>>)

\* the lookup of the intensity with invert, and of its mirror image without;
\* the ramp index of the intensity and of the next intensity up, without invert
LookupGlyphs ==
    /\ samplerPc = "input"
    /\ glyphs' = [inverted |-> getCharacterForBrightness64(
                                  intensity, settings.characterSet, TRUE),
                  mirrored |-> getCharacterForBrightness64(
                                  Mirror255(intensity), settings.characterSet, FALSE),
                  plain |-> getCharacterForBrightness64(
                                  intensity, settings.characterSet, FALSE),
                  index |-> rampIndex(intensity, settings.characterSet),
                  above |-> rampIndex(Above(intensity), settings.characterSet)]
    /\ samplerPc' = "looked up"
    /\ UNCHANGED <<raster, settings, asciiChars, intensity, libCall, libResult,
                   driverVars, pageVars>>

NextGlyph == LookupGlyphs

SpecGlyph == InitGlyph /\ [][NextGlyph]_vars

----------------------------------------------------------------------------
(* The colour functions run on bounded inputs                              *)

MaxStops == 3

ToneValues == {Num(-40), Num(0), Rat(1, 10), Num(100), Num(128), Rat(511, 2),
               Num(255), Num(300)}

\* factors at, near and away from the neutral 1.0; the sliders give 0.2 .. 2
ToneFactors == {Num(-1), Num(0), Rat(1, 5), Rat(1, 2), Rat(999, 1000),
                Rat(19999, 20000), Num(1), Rat(20001, 20000), Rat(1001, 1000),
                Num(2), Num(3)}

\* two-digit channel texts, in lower, upper and mixed case
HexPairs == {<<"0", "0">>, <<"0", "a">>, <<"f", "f">>, <<"F", "F">>, <<"7", "f">>,
             <<"C", "8">>}

\* the strings the pattern of hexToRgb accepts: six hex digits, "#" optional
HexStrings ==
    { lead \o r \o g \o b : lead \in {<<"#">>, <<>>}, r \in HexPairs, g \in HexPairs,
                            b \in HexPairs }

\* gradient stops: the defaults, the stop addGradientColor appends, and hex
\* colours typed into the stop's text field
StopColors == {<<"#", "0", "0", "f", "f", "8", "8">>, <<"#", "f", "f", "0", "0", "f", "f">>,
               <<"#", "0", "0", "f", "f", "f", "f">>, <<"#", "f", "f", "f", "f", "f", "f">>,
               <<"#", "F", "F", "0", "0", "F", "F">>, <<"#", "0", "A", "0", "a", "0", "f">>}

StopLists == UNION { [1..n -> StopColors] : n \in 2..MaxStops }

InitColor ==
    /\ raster = [width |-> 1, height |-> 1, data |-> <<Black>>]
    /\ settings = DEFAULT_SETTINGS
    /\ asciiChars = <<>>
    /\ samplerPc = "input"
    /\ intensity = Zero64
    /\ glyphs = <<>>
    /\ \/ \E v \in ToneValues, f \in ToneFactors :
             libCall = [fn |-> "tone", value |-> v, factor |-> f]
       \/ \E h \in HexStrings : libCall = [fn |-> "hex", hex |-> h]
       \/ \E c \in StopLists : libCall = [fn |-> "gradient", colors |-> c]
    /\ libResult = <<>>
    /\ Mounted(ImageElement, <<>>)

\* applyBrightness and applyContrast of a value and a factor
ApplyTone ==
    /\ samplerPc = "input"
    /\ libCall.fn = "tone"
    /\ libResult' = [brightened |-> applyBrightness(libCall.value, libCall.factor),
                     contrasted |-> applyContrast(libCall.value, libCall.factor)]
    /\ samplerPc' = "returned"
    /\ UNCHANGED <<raster, settings, asciiChars, intensity, glyphs, libCall, driverVars, pageVars>>

\* rgbToHex of hexToRgb of a string
RoundTripHex ==
    /\ samplerPc = "input"
    /\ libCall.fn = "hex"
    /\ LET rgb == hexToRgb(libCall.hex)
       IN  libResult' = [rgb |-> rgb, hex |-> rgbToHex(rgb.r, rgb.g, rgb.b)]
    /\ samplerPc' = "returned"
    /\ UNCHANGED <<raster, settings, asciiChars, intensity, glyphs, libCall, driverVars, pageVars>>

\* interpolateGradient of a list of stops at positions 0 and 1
InterpolateEnds ==
    /\ samplerPc = "input"
    /\ libCall.fn = "gradient"
    /\ libResult' = [first |-> interpolateGradient(libCall.colors, Num(0)),
                     last |-> interpolateGradient(libCall.colors, Num(1))]
    /\ samplerPc' = "returned"
    /\ UNCHANGED <<raster, settings, asciiChars, intensity, glyphs, libCall, driverVars, pageVars>>

NextColor == ApplyTone \/ RoundTripHex \/ InterpolateEnds

SpecColor == InitColor /\ [][NextColor]_vars

----------------------------------------------------------------------------
(* app/page and components/video-uploader: loading an asset                *)

MaxUploads == 3

\* handleLoadingChange(loading) of Home, called at time `now`
handleLoadingChange(h, loading, now) ==
    IF loading
    THEN [h EXCEPT !.loadingStartTimeRef = now, !.isLoading = TRUE]
    ELSE [h EXCEPT !.isLoading = FALSE, !.loadingStartTimeRef = 0,
                   !.pendingVideoRef = 0]

\* handleVideoLoad(loadedVideo, file, frames) of Home, called at time `now`: the
\* timer of the branch without a start time hands over loadedVideo itself, the
\* other one whatever pendingVideoRef holds when it fires
handleVideoLoad(h, id, now) ==
    LET stored == [h EXCEPT !.pendingVideoRef = id]
    IN  IF stored.loadingStartTimeRef = 0
        THEN [stored EXCEPT !.loadingStartTimeRef = now,
                            !.timers = @ \cup {[asset |-> id, reads |-> FALSE]}]
        ELSE [stored EXCEPT !.timers = @ \cup {[asset |-> id, reads |-> TRUE]}]

\* handleReset of Home (the New Video button, shown while a video is set)
HomeHandleReset ==
    /\ home.video # 0
    /\ home' = [home EXCEPT !.video = 0]
    /\ UNCHANGED <<uploads, samplerVars, driverVars>>

\* handleFile of a file of a valid type, up to the handlers it installs; the
\* uploader is rendered while no video is set and nothing loads. The clock of
\* Date.now() is the number of the upload.
HandleFile(type) ==
    /\ home.video = 0 /\ ~home.isLoading
    /\ Len(uploads) < MaxUploads
    /\ home' = handleLoadingChange(home, TRUE, Len(uploads) + 1)
    /\ uploads' = Append(uploads,
          [type |-> type, hasLoaded |-> FALSE,
           pending |-> IF type = "video" THEN {"loadedmetadata", "error", "timeout"}
                       ELSE {"load", "error"},
           reported |-> 0, failed |-> 0])
    /\ UNCHANGED <<samplerVars, driverVars>>

\* video.onloadedmetadata
OnLoadedMetadata(id) ==
    /\ id <= Len(uploads)
    /\ uploads[id].type = "video" /\ "loadedmetadata" \in uploads[id].pending
    /\ IF ~uploads[id].hasLoaded
       THEN /\ uploads' = [uploads EXCEPT ![id].pending = @ \ {"loadedmetadata"},
                                          ![id].hasLoaded = TRUE,
                                          ![id].reported = @ + 1]
            /\ home' = handleVideoLoad(home, id, id)
       ELSE /\ uploads' = [uploads EXCEPT ![id].pending = @ \ {"loadedmetadata"}]
            /\ home' = home
    /\ UNCHANGED <<samplerVars, driverVars>>

\* a variant of video.onerror without the hasLoaded test
OnErrorUnguarded(id) ==
    /\ id <= Len(uploads)
    /\ uploads[id].type = "video" /\ "error" \in uploads[id].pending
    /\ uploads' = [uploads EXCEPT ![id].pending = @ \ {"error"},
                                  ![id].hasLoaded = TRUE,
                                  ![id].failed = @ + 1]
    /\ home' = handleLoadingChange(home, FALSE, id)
    /\ UNCHANGED <<samplerVars, driverVars>>

\* video.onerror
OnError(id) ==
    /\ id <= Len(uploads)
    /\ uploads[id].type = "video" /\ "error" \in uploads[id].pending
    /\ IF ~uploads[id].hasLoaded
       THEN /\ uploads' = [uploads EXCEPT ![id].pending = @ \ {"error"},
                                          ![id].hasLoaded = TRUE,
                                          ![id].failed = @ + 1]
            /\ home' = handleLoadingChange(home, FALSE, id)
       ELSE /\ uploads' = [uploads EXCEPT ![id].pending = @ \ {"error"}]
            /\ home' = home
    /\ UNCHANGED <<samplerVars, driverVars>>

\* the 2000 ms fallback timeout of handleFile; ready is video.readyState >= 2
FallbackTimeout(id, ready) ==
    /\ id <= Len(uploads)
    /\ uploads[id].type = "video" /\ "timeout" \in uploads[id].pending
    /\ IF ~uploads[id].hasLoaded /\ ready
       THEN /\ uploads' = [uploads EXCEPT ![id].pending = @ \ {"timeout"},
                                          ![id].hasLoaded = TRUE,
                                          ![id].reported = @ + 1]
            /\ home' = handleVideoLoad(home, id, id)
       ELSE /\ uploads' = [uploads EXCEPT ![id].pending = @ \ {"timeout"}]
            /\ home' = home
    /\ UNCHANGED <<samplerVars, driverVars>>

\* img.onload: an image element fires one of load and error
ImgOnLoad(id) ==
    /\ id <= Len(uploads)
    /\ uploads[id].type = "gif" /\ "load" \in uploads[id].pending
    /\ uploads' = [uploads EXCEPT ![id].pending = {}, ![id].reported = @ + 1]
    /\ home' = handleVideoLoad(home, id, id)
    /\ UNCHANGED <<samplerVars, driverVars>>

\* a variant of img.onerror that leaves the loading state alone
ImgOnErrorSilent(id) ==
    /\ id <= Len(uploads)
    /\ uploads[id].type = "gif" /\ "error" \in uploads[id].pending
    /\ uploads' = [uploads EXCEPT ![id].pending = {}, ![id].failed = @ + 1]
    /\ home' = home
    /\ UNCHANGED <<samplerVars, driverVars>>

\* img.onerror
ImgOnError(id) ==
    /\ id <= Len(uploads)
    /\ uploads[id].type = "gif" /\ "error" \in uploads[id].pending
    /\ uploads' = [uploads EXCEPT ![id].pending = {}, ![id].failed = @ + 1]
    /\ home' = handleLoadingChange(home, FALSE, id)
    /\ UNCHANGED <<samplerVars, driverVars>>

\* a timer set by handleVideoLoad fires
HandOverTimeout(t) ==
    /\ t \in home.timers
    /\ LET asset == IF t.reads THEN home.pendingVideoRef ELSE t.asset
       IN  home' = IF asset # 0
                   THEN [home EXCEPT !.timers = @ \ {t}, !.isLoading = FALSE,
                                     !.loadingStartTimeRef = 0, !.video = asset,
                                     !.pendingVideoRef = 0]
                   ELSE [home EXCEPT !.timers = @ \ {t}]
    /\ UNCHANGED <<uploads, samplerVars, driverVars>>

NextUpload ==
    \/ HomeHandleReset
    \/ \E type \in {"video", "gif"} : HandleFile(type)
    \/ \E id \in 1..MaxUploads : OnLoadedMetadata(id)
    \/ \E id \in 1..MaxUploads : OnError(id)
    \/ \E id \in 1..MaxUploads, ready \in BOOLEAN : FallbackTimeout(id, ready)
    \/ \E id \in 1..MaxUploads : ImgOnLoad(id)
    \/ \E id \in 1..MaxUploads : ImgOnError(id)
    \/ \E t \in [asset : 1..MaxUploads, reads : BOOLEAN] : HandOverTimeout(t)

\* the page with a loaded asset; the preview's own state on mounting an asset
\* is that of Mounted
InitUpload ==
    /\ SamplerIdle
    /\ Mounted(ImageElement, <<>>)

SpecUpload == InitUpload /\ [][NextUpload]_vars

----------------------------------------------------------------------------
(* Properties of the sampler                                               *)

\* the cells of the sampled grid, as <<row, column>> index pairs
GridCells == { <<y, x>> \in (1..Len(asciiChars)) \X (1..MaxWidth) :
                  x <= Len(asciiChars[y]) }

\* the pixels a stored cell summarises, found from its top-left coordinate
CellBlock(c) ==
    { i \in 0..(raster.width * raster.height - 1) :
        LET px == i % raster.width
            py == i \div raster.width
        IN  /\ c.x <= px /\ px < c.x + settings.pixelSize
            /\ 3 * (py - c.y) < 5 * settings.pixelSize /\ c.y <= py }

\* C1: for width >= 1, height >= 1 and pixelSize >= 2 the grid has exactly
\* floor(height / (pixelSize / 0.6)) rows, every row holds exactly
\* floor(width / pixelSize) cells, and the cells are in row-major order: the
\* top-left coordinates grow down the rows and along each row.
C1_GridDimensions ==
    samplerPc = "sampled" =>
        /\ Len(asciiChars) = (3 * raster.height) \div (5 * settings.pixelSize)
        /\ \A y \in 1..Len(asciiChars) :
              /\ Len(asciiChars[y]) = raster.width \div settings.pixelSize
              /\ \A x \in 1..Len(asciiChars[y]) :
                    /\ asciiChars[y][x].y = asciiChars[y][1].y
                    /\ x > 1 => asciiChars[y][x - 1].x < asciiChars[y][x].x
                    /\ y > 1 => asciiChars[y - 1][x].y < asciiChars[y][x].y

\* a sampled grid of at least two rows and two columns
C1_Witness ==
    /\ samplerPc = "sampled"
    /\ Len(asciiChars) >= 2
    /\ Len(asciiChars[1]) >= 2

\* C2: each cell's glyph is the glyph lookup of the cell's averaged colour after
\* the blend-mode transform, grayscale conversion, brightness and then contrast,
\* in that order.
C2_PipelineOrder ==
    samplerPc = "sampled" =>
        \A q \in GridCells :
            LET c == asciiChars[q[1]][q[2]]
                avg == blockAverage(raster.data, CellBlock(c))
                blended == applyBlendMode(avg.r, avg.g, avg.b, settings.blendMode)
            IN  c.char = getCharacterForBrightness(
                            applyContrast(
                                applyBrightness(
                                    rgbToGrayscale(blended.r, blended.g, blended.b),
                                    settings.brightness),
                                settings.contrast),
                            settings.characterSet, settings.invert)

\* a sampled cell on which brightness clamps before contrast pulls the value back,
\* so that the two orders of brightness and contrast give different glyphs
C2_Witness ==
    /\ samplerPc = "sampled"
    /\ settings.brightness = Num(2)
    /\ settings.contrast = Rat(1, 2)
    /\ \E q \in GridCells :
          LET c == asciiChars[q[1]][q[2]]
              avg == blendedAverage(blockAverage(raster.data, CellBlock(c)), settings.blendMode)
          IN  c.char # getCharacterForBrightness(
                          applyBrightness(
                              applyContrast(rgbToGrayscale(avg.r, avg.g, avg.b),
                                            settings.contrast),
                              settings.brightness),
                          settings.characterSet, settings.invert)

\* C3 as stated: in color mode 'original' each cell's color is the hex of the
\* rounded averaged RGB taken before the blend-mode transform, whatever the
\* blend mode.
C3_OriginalColorPreBlend ==
    (samplerPc = "sampled" /\ settings.colorMode = "original") =>
        \A q \in GridCells :
            LET c == asciiChars[q[1]][q[2]]
                avg == blockAverage(raster.data, CellBlock(c))
            IN  c.color = rgbToHex(MathRound(avg.r), MathRound(avg.g), MathRound(avg.b))

\* C3 amended: in color mode 'original' each cell's color is the hex of the
\* rounded averaged RGB taken after the blend-mode transform; it is the hex of
\* the pre-blend average under blend mode 'normal'.
C3_OriginalColorPostBlend ==
    (samplerPc = "sampled" /\ settings.colorMode = "original") =>
        \A q \in GridCells :
            LET c == asciiChars[q[1]][q[2]]
                avg == blockAverage(raster.data, CellBlock(c))
                blended == applyBlendMode(avg.r, avg.g, avg.b, settings.blendMode)
            IN  /\ c.color = rgbToHex(MathRound(blended.r), MathRound(blended.g),
                                      MathRound(blended.b))
                /\ settings.blendMode = "normal" =>
                      c.color = rgbToHex(MathRound(avg.r), MathRound(avg.g), MathRound(avg.b))

\* a cell sampled in 'original' mode under a blend mode that changes its color
C3_Witness ==
    /\ samplerPc = "sampled"
    /\ settings.colorMode = "original"
    /\ settings.blendMode = "multiply"
    /\ \E q \in GridCells :
          LET c == asciiChars[q[1]][q[2]]
              avg == blockAverage(raster.data, CellBlock(c))
          IN  c.color # rgbToHex(MathRound(avg.r), MathRound(avg.g), MathRound(avg.b))

\* C16: with the default settings (ramp '.:-=+*#%@', pixelSize 8, colour mode
\* 'original', contrast 1, brightness 1, invert off, blend 'normal') a 16x16
\* frame samples to 1 row of 2 cells; all black gives '.' and '#000000' in
\* every cell, all white gives '@' and '#ffffff'.
C16_DefaultScene ==
    (samplerPc = "sampled" /\ raster.width = 16 /\ raster.height = 16
        /\ settings = DEFAULT_SETTINGS) =>
        /\ Len(asciiChars) = 1
        /\ Len(asciiChars[1]) = 2
        /\ (\A i \in 1..256 : raster.data[i] = Black) =>
              \A x \in 1..2 : /\ asciiChars[1][x].char = "."
                              /\ asciiChars[1][x].color = <<"#", "0", "0", "0", "0", "0", "0">>
        /\ (\A i \in 1..256 : raster.data[i] = White) =>
              \A x \in 1..2 : /\ asciiChars[1][x].char = "@"
                              /\ asciiChars[1][x].color = <<"#", "f", "f", "f", "f", "f", "f">>

\* the all-white 16x16 frame, sampled
C16_Witness ==
    /\ samplerPc = "sampled"
    /\ raster.width = 16 /\ raster.height = 16
    /\ \A i \in 1..256 : raster.data[i] = White
    /\ Len(asciiChars) = 1
    /\ asciiChars[1][2].char = "@"

\* C17: renderASCIIToCanvas first clears the whole output surface (a
\* transparent clear if transparentBackground, else an opaque fill with
\* backgroundColor); for an empty grid it does nothing more; otherwise it then
\* draws one glyph per cell, row by row, the cell of row r and column c at
\* (c * outputWidth / cols, r * outputHeight / rows) in the cell's colour.
C17_RenderCalls ==
    samplerPc = "rendered" =>
        LET W == libCall.outputWidth
            H == libCall.outputHeight
            rows == Len(asciiChars)
            cols == IF rows = 0 THEN 0 ELSE Len(asciiChars[1])
        IN  /\ Len(libResult) >= 1
            /\ libResult[1].op = IF settings.transparentBackground THEN "clearRect"
                                 ELSE "fillRect"
            /\ ~settings.transparentBackground =>
                  libResult[1].fillStyle = settings.backgroundColor
            /\ <<libResult[1].x, libResult[1].y, libResult[1].w, libResult[1].h>>
                  = <<0, 0, W, H>>
            /\ Len(libResult) = 1 + rows * cols
            /\ \A r \in 0..(rows - 1) : \A c \in 0..(cols - 1) :
                  LET call == libResult[1 + r * cols + c + 1]
                  IN  /\ call.op = "fillText"
                      /\ call.text = asciiChars[r + 1][c + 1].char
                      /\ call.fillStyle = asciiChars[r + 1][c + 1].color
                      /\ call.x = Rat(c * W, cols)
                      /\ call.y = Rat(r * H, rows)

\* a grid of two rows and two columns drawn on an opaque background
C17_Witness ==
    /\ samplerPc = "rendered"
    /\ ~settings.transparentBackground
    /\ Len(asciiChars) = 2 /\ Len(asciiChars[1]) = 2
    /\ Len(libResult) = 5
    /\ libResult[5].x # libResult[5].y

\* an empty grid: only the clear is made
C17_WitnessEmpty ==
    /\ samplerPc = "rendered"
    /\ settings.transparentBackground
    /\ Len(asciiChars) = 2 /\ Len(asciiChars[1]) = 0
    /\ Len(libResult) = 1

----------------------------------------------------------------------------
(* Properties of the export                                                *)

\* the frames handed to the GIF encoder are complete
GifFramesAdded == exportFormat = "gif" /\ exportPc \in {"render", "encoding"}

\* C4 (as stated): exporting an animated GIF of N frames to the GIF format hands
\* the encoder exactly N frames, one per source frame in source order, and the
\* delay of the i-th output frame equals the i-th source frame's declared
\* delay, whatever that delay is.
C4_DeclaredDelays ==
    (isAnimatedGif /\ GifFramesAdded) =>
        /\ Len(gifEncoder.frames) = Len(gifFrames)
        /\ \A i \in 1..Len(gifEncoder.frames) :
              /\ gifEncoder.frames[i].frame = i - 1
              /\ gifEncoder.frames[i].delay = Num(gifFrames[i].delay)

\* C4 (amended): exporting an animated GIF of N frames to the GIF format hands
\* the encoder exactly N frames, one per source frame in source order; the
\* delay of the i-th output frame is the i-th source frame's declared delay,
\* except that a declared delay of 0 becomes 100 ms.
C4_DelaysWithFallback ==
    (isAnimatedGif /\ GifFramesAdded) =>
        /\ Len(gifEncoder.frames) = Len(gifFrames)
        /\ \A i \in 1..Len(gifEncoder.frames) :
              /\ gifEncoder.frames[i].frame = i - 1
              /\ gifEncoder.frames[i].delay =
                    IF gifFrames[i].delay = 0 THEN Num(100) ELSE Num(gifFrames[i].delay)

\* a finished export loop over a three-frame GIF with a zero and a non-zero delay
C4_Witness ==
    /\ isAnimatedGif /\ GifFramesAdded
    /\ Len(gifEncoder.frames) = 3
    /\ \E i, j \in 1..Len(gifFrames) : gifFrames[i].delay = 0 /\ gifFrames[j].delay > 0

\* C5: exporting a video through the GIF path hands the encoder exactly
\* min(floor(duration * 15), 150) frames, never more than 150 on the way, each
\* with delay 1000/15 ms; a 60-second video yields exactly 150 frames.
C5_VideoFrameBudget ==
    (isVideo /\ exportFormat = "gif") =>
        /\ Len(gifEncoder.frames) <= 150
        /\ \A i \in 1..Len(gifEncoder.frames) :
              gifEncoder.frames[i].delay = [n |-> 200, d |-> 3]
        /\ GifFramesAdded =>
              LET n == (video.duration * 15) \div 1000
              IN  /\ Len(gifEncoder.frames) = IF n < 150 THEN n ELSE 150
                  /\ video.duration = 60000 => Len(gifEncoder.frames) = 150

\* a finished export loop over a 60-second video
C5_Witness ==
    /\ isVideo /\ GifFramesAdded
    /\ video.duration = 60000
    /\ Len(gifEncoder.frames) = 150

\* C6 (as stated): if an exception is raised at any point during an export, in
\* the GIF loops or in the recording loop, the export ends idle, with
\* isExporting false and progress 0.
C6_ExceptionEndsIdle ==
    exportThrown => exportPc = "idle" /\ ~isExporting /\ exportProgress = 0

----------------------------------------------------------------------------
(* Properties of the preview                                               *)

\* C7 (as stated): a reset requested in any driver state, Playing included,
\* leaves the driver Paused.
C7_ResetLeavesPaused == [][HandleReset => ~isPlaying']_vars

\* C7 (amended): a reset requested in any driver state rewinds the video to time
\* zero or the GIF frame index to zero and re-renders once; it leaves the
\* driver in the state it was in, Playing or Paused.
C7_ResetKeepsPlayState ==
    [][HandleReset =>
          /\ isVideo => video'.currentTime = Num(0)
          /\ isAnimatedGif => gifFrameIndexRef' = 0 /\ lastCompose'.frame = 0
          /\ lastCall'.renders = 1
          /\ outputCanvas' = asciiRendition(sourceCanvas')
          /\ isPlaying' = isPlaying /\ animationRef' = animationRef]_vars

\* a reset of a playing GIF that had advanced past frame 0
C7_Witness ==
    /\ lastCall.op = "reset"
    /\ isPlaying
    /\ isAnimatedGif /\ lastCompose.onto > 0

\* C8 (as stated): on an animated GIF, every frame is composited onto the
\* composite left by its predecessor in sequence order: frame 0 onto a blank
\* surface or onto the last frame's composite, frame k > 0 onto frame k - 1's.
\* A frame drawn again onto its own composite is let pass here.
C8_SequentialCompositing ==
    isAnimatedGif =>
        \/ lastCompose.onto = lastCompose.frame
        \/ IF lastCompose.frame = 0
           THEN lastCompose.onto \in {-1, Len(gifFrames) - 1}
           ELSE lastCompose.onto = lastCompose.frame - 1

\* a step of an export pass that samples and renders a frame
ExportPass ==
    \/ ExportGifFrame
    \/ ExportVideoFrame
    \/ ExportStillFrame
    \/ RecordStart
    \/ \E pct \in RecordSteps : RecordFrame(pct)

\* C9 (as stated): an export pass leaves the live preview unchanged: it writes
\* neither the live GIF composite nor the preview output, and it changes
\* neither the preview's GIF frame index nor the frame the composite shows.
C9_ExportLeavesPreview ==
    [][ExportPass => UNCHANGED <<gifCanvas, outputCanvas, gifFrameIndexRef,
                                 lastCompose>>]_vars

\* C19 (as stated): on a tick while playing a multi-frame GIF, the frame index
\* advances to (index + 1) mod frameCount exactly when the time elapsed is at
\* least the current frame's declared delay, and is otherwise unchanged; either
\* way the tick samples and renders the current composite once.
C19_TickOnDeclaredDelay ==
    [][(Animate /\ isPlaying /\ isAnimatedGif) =>
          /\ gifFrameIndexRef' =
                IF sinceGifFrame + TickInterval >= gifFrames[gifFrameIndexRef + 1].delay
                THEN (gifFrameIndexRef + 1) % Len(gifFrames)
                ELSE gifFrameIndexRef
          /\ lastCall'.renders = 1
          /\ sourceCanvas' = drawImage(gifCanvas', sourceCanvas)
          /\ outputCanvas' = asciiRendition(sourceCanvas')]_vars

\* C19 (amended): the same, with the delay of a frame that declares 0 taken as
\* 100 ms, and the elapsed time counted from the later of the last advance by a
\* tick and the last start of the animation loop.
C19_TickOnEffectiveDelay ==
    [][(Animate /\ isPlaying /\ isAnimatedGif) =>
          LET declared == gifFrames[gifFrameIndexRef + 1].delay
              delay == IF declared = 0 THEN DEFAULT_GIF_DELAY ELSE declared
          IN  /\ gifFrameIndexRef' =
                    IF sinceGifFrame + TickInterval >= delay
                    THEN (gifFrameIndexRef + 1) % Len(gifFrames)
                    ELSE gifFrameIndexRef
              /\ lastCall'.renders = 1
              /\ sourceCanvas' = drawImage(gifCanvas', sourceCanvas)
              /\ outputCanvas' = asciiRendition(sourceCanvas')]_vars

\* a tick that found a frame declaring delay 0 not yet due
C19_Witness ==
    /\ lastCall.op = "animate"
    /\ isPlaying /\ isAnimatedGif
    /\ gifFrames[gifFrameIndexRef + 1].delay = 0
    /\ sinceGifFrame = TickInterval

\* C20: a pause and a resume leave the GIF frame index, the composite and the
\* video time as they are, drawing nothing; and while the driver is paused (the
\* video element paused with it) and no export runs, only a reset moves them:
\* a play after a pause goes on from the position the pause left.
C20_PauseRetainsPosition ==
    /\ [][HandlePlayPause =>
            /\ isPlaying' = ~isPlaying
            /\ video'.paused = IF isVideo THEN ~isPlaying' ELSE video.paused
            /\ video'.currentTime = video.currentTime
            /\ UNCHANGED <<gifFrameIndexRef, gifCanvas, lastCompose, sourceCanvas,
                           outputCanvas>>]_vars
    /\ [][(~isPlaying /\ ~isPlaying' /\ video.paused /\ ~isExporting /\ ~isExporting'
              /\ ~HandleReset) =>
            /\ video'.currentTime = video.currentTime
            /\ UNCHANGED <<gifFrameIndexRef, gifCanvas, lastCompose>>]_vars

\* a GIF playing again from a frame past the first, after a pause there
C20_Witness ==
    /\ lastCall.op = "playPause"
    /\ isPlaying /\ isAnimatedGif
    /\ gifFrameIndexRef > 0
    /\ sinceGifFrame = 0

----------------------------------------------------------------------------
(* Properties of the glyph lookup                                          *)

\* C10 (as stated): for every intensity x in [0, 255] and every ramp, the glyph
\* of x with invert equals the glyph of 255 - x without invert.
C10_InvertMirrors ==
    samplerPc = "looked up" => glyphs.inverted = glyphs.mirrored

\* C11: with invert off and a ramp of at least 2 glyphs, the ramp index is a
\* valid index of the ramp and the returned glyph is the ramp's glyph at it, it
\* does not decrease from an intensity to the next intensity up (so, link by
\* link, x <= y implies index(x) <= index(y)), it is 0 at intensity 0 and the
\* last index at intensity 255.
C11_IndexMonotone ==
    samplerPc = "looked up" /\ Len(settings.characterSet) >= 2 =>
        /\ glyphs.index \in 0..(Len(settings.characterSet) - 1)
        /\ glyphs.plain = settings.characterSet[glyphs.index + 1]
        /\ glyphs.index <= glyphs.above
        /\ intensity = Zero64 => glyphs.index = 0
        /\ intensity = [int |-> 255, frac |-> <<>>] =>
              glyphs.index = Len(settings.characterSet) - 1

\* a lookup where the index steps up between an intensity and the next
C11_Witness ==
    /\ samplerPc = "looked up"
    /\ Len(settings.characterSet) = MaxRampLength
    /\ glyphs.index = 2
    /\ glyphs.above = 3

----------------------------------------------------------------------------
(* Properties of the colour functions                                      *)

InRange255(v) == RLeq(Num(0), v) /\ RLeq(v, Num(255))

NeutralFactor(f) == RLess(RAbs(RSub(f, Num(1))), Rat(1, 1000))

\* C12 (as stated): for every value, also below 0 and above 255, and every
\* factor, applyBrightness and applyContrast both return a result in [0, 255].
C12_ToneClamped ==
    samplerPc = "returned" /\ libCall.fn = "tone" =>
        InRange255(libResult.brightened) /\ InRange255(libResult.contrasted)

\* C12 (amended): applyBrightness always returns a result in [0, 255];
\* applyContrast does so whenever the factor is not within 0.001 of 1.0 or the
\* value is itself in [0, 255], and otherwise returns the value as it is.
C12_ToneClampedUnlessNeutral ==
    samplerPc = "returned" /\ libCall.fn = "tone" =>
        /\ InRange255(libResult.brightened)
        /\ IF NeutralFactor(libCall.factor) /\ ~InRange255(libCall.value)
           THEN libResult.contrasted = libCall.value
           ELSE InRange255(libResult.contrasted)

\* a value below 0 that a negative-free factor would leave below 0, clamped
C12_Witness ==
    /\ samplerPc = "returned" /\ libCall.fn = "tone"
    /\ libCall.value = Num(-40) /\ libCall.factor = Num(2)
    /\ libResult.brightened = Num(0) /\ libResult.contrasted = Num(0)

\* C13: applyContrast returns the value unchanged whenever the factor is within
\* 0.001 of 1.0, and otherwise (value - 128) * factor + 128 clamped to [0, 255].
C13_ContrastLaw ==
    samplerPc = "returned" /\ libCall.fn = "tone" =>
        LET v == libCall.value
            f == libCall.factor
            adjusted == Rat((v.n - 128 * v.d) * f.n + 128 * v.d * f.d, v.d * f.d)
        IN  libResult.contrasted =
              IF NeutralFactor(f) THEN v
              ELSE IF adjusted.n < 0 THEN Num(0)
              ELSE IF adjusted.n > 255 * adjusted.d THEN Num(255)
              ELSE adjusted

\* a factor within the guard but not 1.0, where the formula would move the value
C13_Witness ==
    /\ samplerPc = "returned" /\ libCall.fn = "tone"
    /\ libCall.factor = Rat(20001, 20000) /\ libCall.value = Num(100)
    /\ libResult.contrasted = Num(100)

\* C14 (as stated): for every list of at least 2 gradient stops, the gradient
\* at position 0 is the first stop and at position 1 the last stop.
C14_GradientEnds ==
    samplerPc = "returned" /\ libCall.fn = "gradient" =>
        /\ libResult.first = libCall.colors[1]
        /\ libResult.last = libCall.colors[Len(libCall.colors)]

\* C15 (as stated): for every string of six hex digits, "#" optional, that
\* hexToRgb accepts, rgbToHex of hexToRgb of the string is the string.
C15_HexRoundTrip ==
    samplerPc = "returned" /\ libCall.fn = "hex" => libResult.hex = libCall.hex

\* C15 (amended): the round trip returns "#" and the six digits in lower case,
\* which is the string itself when it starts with "#" and has no upper-case
\* digit.
C15_HexRoundTripLowerCase ==
    samplerPc = "returned" /\ libCall.fn = "hex" =>
        LET h == libCall.hex
            digits == IF h[1] = "#" THEN Tail(h) ELSE h
            lower == [i \in 1..6 |->
                        IF \E k \in 11..16 : UpperHexDigits[k] = digits[i]
                        THEN HexDigits[CHOOSE k \in 11..16 : UpperHexDigits[k] = digits[i]]
                        ELSE digits[i]]
        IN  /\ libResult.hex = <<"#">> \o lower
            /\ (h[1] = "#" /\ lower = digits) => libResult.hex = h

\* a lower-case string with a channel below 16, which needs the padding
C15_Witness ==
    /\ samplerPc = "returned" /\ libCall.fn = "hex"
    /\ libCall.hex = <<"#", "0", "a", "7", "f", "f", "f">>
    /\ libResult.rgb = [r |-> 10, g |-> 127, b |-> 255]
    /\ libResult.hex = libCall.hex

----------------------------------------------------------------------------
(* Properties of the control panel                                         *)

\* C18: from the default settings, whatever stops are added, removed and
\* updated, the number of gradient stops stays within 2..8; an add at 8 stops
\* and a remove at 2 stops leave the settings as they are, and an update never
\* changes the number of stops.
C18_StopCount ==
    /\ [](Len(settings.gradientColors) \in 2..8)
    /\ [][/\ (AddGradientColor /\ Len(settings.gradientColors) = 8) =>
               settings' = settings
          /\ \A index \in 0..7 :
               (RemoveGradientColor(index) /\ Len(settings.gradientColors) = 2) =>
                   settings' = settings
          /\ \A index \in 0..7, color \in PickedColors :
               UpdateGradientColor(index, color) =>
                   Len(settings'.gradientColors) = Len(settings.gradientColors)]_vars

\* an add requested when there are 8 stops already
C18_Witness ==
    /\ libCall = [fn |-> "addGradientColor", stops |-> 8]
    /\ Len(settings.gradientColors) = 8

----------------------------------------------------------------------------
(* Properties of the GIF composite                                         *)

\* C21: whenever a GIF frame is composited (tick, reset or export), the pixels
\* of its patch show the frame, and the pixels outside the patch are blank if
\* the frame's disposal directive is clear (2) and keep what the composite held
\* otherwise; so in a 2-frame GIF disposing [clear, keep], the second frame
\* leaves the first frame's patch in place outside its own.
C21_DisposalBeforePatch ==
    [][(\/ Animate /\ isAnimatedGif /\ gifFrameIndexRef' # gifFrameIndexRef
        \/ HandleReset /\ isAnimatedGif
        \/ ExportGifFrame) =>
          LET k == lastCompose'.frame
              frame == gifFrames[k + 1]
          IN  /\ \A p \in Pixels :
                    gifCanvas'[p] =
                        IF p \in frame.dims THEN k
                        ELSE IF frame.disposalType = 2 THEN -1 ELSE gifCanvas[p]
              /\ (Len(gifFrames) = 2 /\ k = 1 /\ gifFrames[1].disposalType = 2
                    /\ gifFrames[2].disposalType # 2) =>
                    \A p \in Pixels \ frame.dims : gifCanvas'[p] = 0]_vars

\* the second frame of a 2-frame GIF disposing [clear, keep], composited over
\* the first frame's patch
C21_Witness ==
    /\ Len(gifFrames) = 2
    /\ gifFrames[1].disposalType = 2 /\ gifFrames[2].disposalType = 1
    /\ lastCompose = [frame |-> 1, onto |-> 0]
    /\ gifCanvas = [p \in Pixels |-> IF p \in gifFrames[2].dims THEN 1 ELSE 0]
    /\ \E p \in Pixels : gifCanvas[p] = 0

----------------------------------------------------------------------------
(* Properties of the video export                                          *)

\* C22 (as stated): in the video path of the GIF export the i-th frame is
\* sampled at source time i / 15 seconds, so that under the 150-frame cap no
\* sample lies at or beyond 150 / 15 = 10 seconds of the video.
C22_FixedRateSampling ==
    (isVideo /\ exportFormat = "gif" /\ exportPc = "awaitSeek") =>
        /\ video.currentTime = Rat(exportIdx * 1000, EXPORT_FPS)
        /\ RLess(video.currentTime, Rat(MAX_EXPORT_FRAMES * 1000, EXPORT_FPS))

\* C23 (as stated): in the video export paths a frame is released only by the
\* seeked event of the seek to its own timestamp, after that seek completed:
\* never while the seek is pending, never by the event of an earlier seek; and
\* while the export waits, its seek is pending or its event is still to come.
C23_SampleAfterOwnSeek ==
    [][/\ (ExportVideoFrame \/ RecordSeeked) =>
              /\ ~video.seeking
              /\ Head(video.seeked) = exportIdx
       /\ (exportPc' \in {"awaitSeek", "awaitRecSeek"}) =>
              \/ video'.seeking /\ video'.seekBy = exportIdx'
              \/ \E k \in 1..Len(video'.seeked) : video'.seeked[k] = exportIdx']_vars

----------------------------------------------------------------------------
(* Properties of loading an asset                                          *)

C30_SingleOutcome ==
    \A id \in 1..Len(uploads) :
        uploads[id].type = "video" =>
            /\ uploads[id].reported <= 1
            /\ uploads[id].reported + uploads[id].failed <= 1

\* a video upload all of whose events and timeout have fired, reported once
C30_Witness ==
    \E id \in 2..Len(uploads) :
        /\ uploads[id].type = "video"
        /\ uploads[id].pending = {}
        /\ uploads[id].reported = 1

----------------------------------------------------------------------------
(* Properties of the sampling rectangles                                   *)

\* C25 (as stated): the sampling rectangles of distinct cells do not overlap:
\* every source pixel is averaged into at most one cell.
C25_CellsDisjoint ==
    samplerPc = "sampled" =>
        \A q1 \in GridCells, q2 \in GridCells :
            q1 # q2 =>
                CellBlock(asciiChars[q1[1]][q1[2]])
                    \cap CellBlock(asciiChars[q2[1]][q2[2]]) = {}

\* C26: for width >= 1, height >= 1 and pixelSize >= 2 no cell is omitted (the
\* grid holds all floor(height / stepY) * floor(width / stepX) cells), every
\* cell's stored top-left (x, y) is (floor(col * stepX), floor(row * stepY))
\* and lies inside the frame, and the pixels its loops read are at least one
\* and all inside the width x height buffer.
C26_CellsInsideFrame ==
    samplerPc = "sampled" =>
        LET stepX == Num(settings.pixelSize)
            stepY == RDiv(Num(settings.pixelSize), CHAR_ASPECT_RATIO)
        IN  /\ Len(asciiChars) = MathFloor(RDiv(Num(raster.height), stepY))
            /\ \A y \in 1..Len(asciiChars) :
                  /\ Len(asciiChars[y]) = MathFloor(RDiv(Num(raster.width), stepX))
                  /\ \A x \in 1..Len(asciiChars[y]) :
                        LET c == asciiChars[y][x]
                            read == blockPixels(c.x, c.y, MathCeil(stepX), MathCeil(stepY),
                                                raster.width, raster.height)
                        IN  /\ c.x = MathFloor(RMul(Num(x - 1), stepX))
                            /\ c.y = MathFloor(RMul(Num(y - 1), stepY))
                            /\ 0 <= c.x /\ c.x < raster.width
                            /\ 0 <= c.y /\ c.y < raster.height
                            /\ read # {}
                            /\ read \subseteq 0..(raster.width * raster.height - 1)

\* a grid whose last cell ends on the frame's bottom row and leaves columns
\* of the frame unsampled at the right
C26_Witness ==
    /\ samplerPc = "sampled"
    /\ Len(asciiChars) >= 2 /\ Len(asciiChars[1]) >= 1
    /\ LET c == asciiChars[Len(asciiChars)][Len(asciiChars[1])]
       IN  /\ c.x + settings.pixelSize < raster.width
           /\ 3 * (raster.height - c.y - 1) < 5 * settings.pixelSize

----------------------------------------------------------------------------
(* Properties of the glyph lookup at whole intensities                     *)

\* C27: for every whole intensity x in 0..255 and every ramp of n >= 2 glyphs,
\* the glyph chosen with invert is the ramp's glyph at (n - 1) - index(x), the
\* mirror of the index chosen for x without invert.
C27_IntegerMirror ==
    (/\ samplerPc = "looked up"
     /\ Len(settings.characterSet) >= 2
     /\ IsZeroBits(intensity.frac) /\ intensity.int \in 0..255) =>
        /\ glyphs.index = characterIndex64(intensity, Len(settings.characterSet), FALSE)
        /\ glyphs.inverted =
              settings.characterSet[(Len(settings.characterSet) - 1) - glyphs.index + 1]
        /\ characterIndex64(intensity, Len(settings.characterSet), TRUE)
              = (Len(settings.characterSet) - 1) - glyphs.index

\* the whole intensity nearest to a rounding tie of the longest ramp: 128 of
\* 255 over 5 steps is 2.51, index 3, and its inverted index is 2
C27_Witness ==
    /\ samplerPc = "looked up"
    /\ Len(settings.characterSet) = MaxRampLength
    /\ intensity = [int |-> 128, frac |-> <<>>]
    /\ glyphs.index = 3
    /\ glyphs.inverted = settings.characterSet[3]

----------------------------------------------------------------------------
(* Properties of the preview while and after exporting                     *)

\* C28 (as stated): in every reachable state of the preview of an animated GIF
\* the frame index lies in [0, frameCount) and the frame last composited onto
\* the live composite is the frame at the frame index.
C28_CompositeShowsIndex ==
    isAnimatedGif =>
        /\ gifFrameIndexRef \in 0..(Len(gifFrames) - 1)
        /\ lastCompose.frame = gifFrameIndexRef

\* C29 (as stated): while an export is in progress (isExporting set by
\* handleExport and not yet cleared by the completion callback or the error
\* handler) the preview is not Playing and no tick runs or is requested; the
\* Playing state is restored only once the export has finished.
C29_ExportKeepsPaused ==
    isExporting =>
        /\ ~isPlaying
        /\ ~animationRef
        /\ lastCall.op # "animate"

====
